---------------------------- MODULE Spec2Model ----------------------------
(***************************************************************************)
(* Model of the deterministic bank-statement extraction pipeline of        *)
(* bank-statement-visualizer: date parsing, amount normalisation, column   *)
(* mapping, the two PDF extraction strategies, the tabular row parsers and *)
(* balance validation.                                                     *)
(*                                                                         *)
(* Conventions.  A string is a sequence of one-character strings.  A value *)
(* that may be absent (null / undefined) is a record [ok |-> FALSE] or     *)
(* [ok |-> TRUE, ...].  Money is an integer number of thousandths (so that *)
(* rounding to two decimals is something the model can get wrong); the     *)
(* comparisons of the code are scaled accordingly.  Strings contain no     *)
(* line breaks.                                                            *)
(***************************************************************************)
EXTENDS Integers, Sequences, FiniteSets, TLC

VARIABLES
    dRaw,       \* parseDate: the argument `raw`
    dNative,    \* parseDate: what `new Date(cleaned)` yields for it
    dOut,       \* parseDate: the returned value
    dPc,        \* parseDate: "call" before the call, "done" after it
    vIn,        \* validateWithBalance: the array passed as `transactions`
    vOut,       \* validateWithBalance: the returned array
    vPc,        \* validateWithBalance: "call" before the call, "done" after it
    uuidNext,   \* uuidv4(): the identifiers handed out so far are 1..uuidNext-1
    clock,      \* the time `new Date()` reads; it never runs backwards
    tFile,      \* parseCSV / parseXLS: the file
    tOut,       \* parseCSV / parseXLS: how the promise settled
    tPc,        \* parseCSV / parseXLS: "call" before the call, "done" after it
    pRuns,      \* parsePDF: the invocations, each with its file, its position
                \* in the function, its local variables and its outcome
    fIn,        \* a helper function called on its own: its name and arguments
    fOut,       \* a helper function called on its own: the returned value
    fPc         \* a helper function called on its own: "call", then "done"

dateVars == <<dRaw, dNative, dOut, dPc>>
valVars == <<vIn, vOut, vPc>>
envVars == <<uuidNext, clock>>
tabVars == <<tFile, tOut, tPc>>
pdfVars == <<pRuns>>
fnVars == <<fIn, fOut, fPc>>

vars == <<dRaw, dNative, dOut, dPc, vIn, vOut, vPc, uuidNext, clock, tFile, tOut,
          tPc, pRuns, fIn, fOut, fPc>>

\* the variables of an operation while another operation is the one under study
DateIdle ==
    dRaw = <<>> /\ dNative = [ok |-> FALSE] /\ dOut = [ok |-> FALSE] /\ dPc = "idle"
ValIdle == vIn = <<>> /\ vOut = <<>> /\ vPc = "idle"
TabIdle == tFile = [format |-> "none"] /\ tOut = [status |-> "pending"] /\ tPc = "idle"
\* the invocations of parsePDF that can be under way, and one that is not
Runs == 1..3
NoRun == [pc |-> "off"]

PdfIdle == pRuns = <<NoRun, NoRun, NoRun>>
FnIdle == fIn = [fn |-> "none"] /\ fOut = [ok |-> FALSE] /\ fPc = "idle"

\* no identifier handed out yet, the clock at its origin
EnvInit == uuidNext = 1 /\ clock = 0

-----------------------------------------------------------------------------
(* Characters and strings                                                  *)

DigitSeq == <<"0", "1", "2", "3", "4", "5", "6", "7", "8", "9">>
UpperSeq == <<"A", "B", "C", "D", "E", "F", "G", "H", "I", "J", "K", "L", "M",
              "N", "O", "P", "Q", "R", "S", "T", "U", "V", "W", "X", "Y", "Z">>
LowerSeq == <<"a", "b", "c", "d", "e", "f", "g", "h", "i", "j", "k", "l", "m",
              "n", "o", "p", "q", "r", "s", "t", "u", "v", "w", "x", "y", "z">>

Range(f) == {f[i] : i \in DOMAIN f}

Digits == Range(DigitSeq)
Letters == Range(UpperSeq) \cup Range(LowerSeq)
WordChars == Digits \cup Letters \cup {"_"}
Spaces == {" "}

DigitVal(c) == CHOOSE n \in 0..9 : DigitSeq[n + 1] = c

ToLowerChar(c) ==
    IF c \in Range(UpperSeq)
    THEN LowerSeq[CHOOSE i \in 1..26 : UpperSeq[i] = c]
    ELSE c

ToLower(s) == [i \in 1..Len(s) |-> ToLowerChar(s[i])]

\* +"123": the number a string of digits denotes
RECURSIVE ToNum(_)
ToNum(s) ==
    IF s = <<>> THEN 0
    ELSE 10 * ToNum(SubSeq(s, 1, Len(s) - 1)) + DigitVal(s[Len(s)])

\* String.prototype.trim
RECURSIVE TrimLeft(_)
TrimLeft(s) ==
    IF s # <<>> /\ Head(s) \in Spaces THEN TrimLeft(Tail(s)) ELSE s

RECURSIVE TrimRight(_)
TrimRight(s) ==
    IF s # <<>> /\ s[Len(s)] \in Spaces
    THEN TrimRight(SubSeq(s, 1, Len(s) - 1))
    ELSE s

Trim(s) == TrimRight(TrimLeft(s))

\* s.slice(p - 1): the suffix of s starting at the 1-based position p
From(s, p) == SubSeq(s, p, Len(s))

\* the number of consecutive characters of s from position p that lie in cls
RECURSIVE RunLen(_, _, _)
RunLen(cls, s, p) ==
    IF p <= Len(s) /\ s[p] \in cls THEN 1 + RunLen(cls, s, p + 1) ELSE 0

Min(a, b) == IF a <= b THEN a ELSE b
Abs(a) == IF a < 0 THEN -a ELSE a

-----------------------------------------------------------------------------
(* Regular expressions that are a sequence of quantified character classes *)
(* cls{lo,hi}, matched greedily with backtracking as the regex engine      *)
(* does.  A match is the sequence of the lengths its atoms consumed.       *)

Atom(cls, lo, hi) == [t |-> "atom", cls |-> cls, lo |-> lo, hi |-> hi]
One(cls) == Atom(cls, 1, 1)
Opt(cls) == Atom(cls, 0, 1)
Star(cls) == Atom(cls, 0, -1)    \* hi < 0: no upper count
Plus(cls) == Atom(cls, 1, -1)

NoMatch == [ok |-> FALSE]

RECURSIVE MatchAt(_, _, _, _, _)
MatchAt(re, k, s, p, toEnd) ==
    IF k > Len(re)
    THEN IF toEnd /\ p # Len(s) + 1 THEN NoMatch
         ELSE [ok |-> TRUE, lens |-> <<>>]
    ELSE LET run == RunLen(re[k].cls, s, p)
             most == IF re[k].hi < 0 THEN run ELSE Min(re[k].hi, run)
             RECURSIVE Try(_)
             Try(n) ==
                 IF n < re[k].lo THEN NoMatch
                 ELSE LET rest == MatchAt(re, k + 1, s, p + n, toEnd)
                      IN  IF rest.ok
                          THEN [ok |-> TRUE, lens |-> <<n>> \o rest.lens]
                          ELSE Try(n - 1)
         IN  Try(most)

\* cleaned.match(/^...$/)
FullMatch(re, s) == MatchAt(re, 1, s, 1, TRUE)

\* capture group k of a match that started at position p: the text atom k consumed
RECURSIVE SumTo(_, _)
SumTo(lens, k) == IF k = 0 THEN 0 ELSE lens[k] + SumTo(lens, k - 1)

Group(s, p, lens, k) ==
    SubSeq(s, p + SumTo(lens, k - 1), p + SumTo(lens, k) - 1)

-----------------------------------------------------------------------------
(* Regular expressions with alternation, \b and a negative lookahead, used *)
(* unanchored (match, test, replace with the g flag).  EndOf is the end of  *)
(* the match starting at p that the backtracking engine finds first, the   *)
(* position after its last character, or 0 when no match starts at p.      *)
(* Every regex of the parsers consumes at least one character.             *)

Alt(alts) == [t |-> "alt", alts |-> alts]
WordBoundary == [t |-> "wb"]
NotAhead(cls) == [t |-> "nla", cls |-> cls]

\* a literal: one atom per character
Lit(text) == [i \in 1..Len(text) |-> One({text[i]})]

\* \b holds at position p of s
AtWordBoundary(s, p) ==
    ((p > 1) /\ (s[p - 1] \in WordChars)) # ((p <= Len(s)) /\ (s[p] \in WordChars))

RECURSIVE EndOf(_, _, _, _)
EndOf(re, k, s, p) ==
    IF k > Len(re) THEN p
    ELSE CASE re[k].t = "atom" ->
                LET run == RunLen(re[k].cls, s, p)
                    most == IF re[k].hi < 0 THEN run ELSE Min(re[k].hi, run)
                    RECURSIVE Try(_)
                    Try(n) ==
                        IF n < re[k].lo THEN 0
                        ELSE LET e == EndOf(re, k + 1, s, p + n)
                             IN  IF e # 0 THEN e ELSE Try(n - 1)
                IN  Try(most)
           [] re[k].t = "alt" ->
                LET rest == SubSeq(re, k + 1, Len(re))
                    RECURSIVE Branch(_)
                    Branch(a) ==
                        IF a > Len(re[k].alts) THEN 0
                        ELSE LET e == EndOf(re[k].alts[a] \o rest, 1, s, p)
                             IN  IF e # 0 THEN e ELSE Branch(a + 1)
                IN  Branch(1)
           [] re[k].t = "wb" ->
                IF AtWordBoundary(s, p) THEN EndOf(re, k + 1, s, p) ELSE 0
           [] re[k].t = "nla" ->
                IF p <= Len(s) /\ s[p] \in re[k].cls THEN 0
                ELSE EndOf(re, k + 1, s, p)

\* the positions of s where a match of re starts, in ascending order
StartsOf(re, s) ==
    SelectSeq([p \in 1..(Len(s) + 1) |-> p], LAMBDA p : EndOf(re, 1, s, p) # 0)

\* the leftmost match of re in s: the positions of its first character and of
\* the character after its last
Search(re, s) ==
    LET starts == StartsOf(re, s)
    IN  IF starts = <<>> THEN NoMatch
        ELSE [ok |-> TRUE, start |-> starts[1], end |-> EndOf(re, 1, s, starts[1])]

\* re.test(s)
Test(re, s) == Search(re, s).ok

\* the matches of re in s that the g flag finds, left to right, none
\* overlapping the one before
Matches(re, s) ==
    LET RECURSIVE After(_, _, _)
        After(starts, i, from) ==
            LET Found(end) ==
                    <<[start |-> starts[i], end |-> end]>> \o After(starts, i + 1, end)
            IN  IF i > Len(starts) THEN <<>>
                ELSE IF starts[i] < from THEN After(starts, i + 1, from)
                ELSE Found(EndOf(re, 1, s, starts[i]))
    IN  After(StartsOf(re, s), 1, 1)

\* s.match(re) with the g flag: the matched substrings
MatchAll(re, s) ==
    LET Texts(ms) == [i \in DOMAIN ms |-> SubSeq(s, ms[i].start, ms[i].end - 1)]
    IN  Texts(Matches(re, s))

\* src.replace(re, "") with the g flag, the matches being looked for in s: s is
\* src itself, or its lower case for a regex with the i flag
RemoveAll(re, s, src) ==
    LET Outside(ms) ==
            SelectSeq([p \in 1..Len(src) |-> p],
                      LAMBDA p : \A i \in DOMAIN ms : p < ms[i].start \/ ms[i].end <= p)
        Chars(kept) == [k \in DOMAIN kept |-> src[kept[k]]]
    IN  Chars(Outside(Matches(re, s)))

\* s.replace(/\s+/g, " ")
CollapseSpaces(s) ==
    LET kept == SelectSeq([i \in 1..Len(s) |-> i],
                          LAMBDA i : s[i] \notin Spaces \/ i = 1 \/ s[i - 1] \notin Spaces)
    IN  [k \in 1..Len(kept) |-> IF s[kept[k]] \in Spaces THEN " " ELSE s[kept[k]]]

-----------------------------------------------------------------------------
(* dateParser: MONTH_MAP, DATE_PATTERNS, expandYear, parseDate             *)

NoDate == [ok |-> FALSE]
Date(y, m, d) == [ok |-> TRUE, year |-> y, month |-> m, day |-> d]

MinYear == 1990
MaxYear == 2100

\* MONTH_MAP: the lower-case month names and their 0-based month
MONTH_MAP ==
    << <<<<"j", "a", "n">>, 0>>,
       <<<<"j", "a", "n", "u", "a", "r", "y">>, 0>>,
       <<<<"f", "e", "b">>, 1>>,
       <<<<"f", "e", "b", "r", "u", "a", "r", "y">>, 1>>,
       <<<<"m", "a", "r">>, 2>>,
       <<<<"m", "a", "r", "c", "h">>, 2>>,
       <<<<"a", "p", "r">>, 3>>,
       <<<<"a", "p", "r", "i", "l">>, 3>>,
       <<<<"m", "a", "y">>, 4>>,
       <<<<"j", "u", "n">>, 5>>,
       <<<<"j", "u", "n", "e">>, 5>>,
       <<<<"j", "u", "l">>, 6>>,
       <<<<"j", "u", "l", "y">>, 6>>,
       <<<<"a", "u", "g">>, 7>>,
       <<<<"a", "u", "g", "u", "s", "t">>, 7>>,
       <<<<"s", "e", "p">>, 8>>,
       <<<<"s", "e", "p", "t">>, 8>>,
       <<<<"s", "e", "p", "t", "e", "m", "b", "e", "r">>, 8>>,
       <<<<"o", "c", "t">>, 9>>,
       <<<<"o", "c", "t", "o", "b", "e", "r">>, 9>>,
       <<<<"n", "o", "v">>, 10>>,
       <<<<"n", "o", "v", "e", "m", "b", "e", "r">>, 10>>,
       <<<<"d", "e", "c">>, 11>>,
       <<<<"d", "e", "c", "e", "m", "b", "e", "r">>, 11>> >>

\* MONTH_MAP[name]: the month of a lower-case name, or undefined
MonthOf(name) ==
    IF \E i \in DOMAIN MONTH_MAP : MONTH_MAP[i][1] = name
    THEN [ok |-> TRUE,
          v |-> MONTH_MAP[CHOOSE i \in DOMAIN MONTH_MAP : MONTH_MAP[i][1] = name][2]]
    ELSE [ok |-> FALSE]

\* expandYear with the pivot at 30
expandYearPivot30(y) ==
    IF y >= 100 THEN y
    ELSE IF y < 30 THEN 2000 + y ELSE 1900 + y

expandYear(y) ==
    IF y >= 100 THEN y
    ELSE IF y < 50 THEN 2000 + y ELSE 1900 + y

DashSlash == {"-", "/"}
DashSlashSp == {"-", "/", " "}
DashSlashSpComma == {"-", "/", " ", ","}

\* DATE_PATTERNS in order: the regex, the capture groups (as atom indices)
\* holding day, month and year, and how extract reads month and year
DATE_PATTERNS ==
    << [re |-> <<Atom(Digits, 4, 4), One(DashSlash), Atom(Digits, 1, 2),
                 One(DashSlash), Atom(Digits, 1, 2)>>,
        d |-> 5, m |-> 3, y |-> 1, named |-> FALSE, expand |-> FALSE],
       [re |-> <<Atom(Digits, 1, 2), One(DashSlashSp), Atom(Letters, 3, 9),
                 Star(DashSlashSpComma), Atom(Digits, 2, 4)>>,
        d |-> 1, m |-> 3, y |-> 5, named |-> TRUE, expand |-> TRUE],
       [re |-> <<Atom(Letters, 3, 9), Plus(Spaces), Atom(Digits, 1, 2),
                 Opt({","}), Star(Spaces), Atom(Digits, 2, 4)>>,
        d |-> 3, m |-> 1, y |-> 6, named |-> TRUE, expand |-> TRUE],
       [re |-> <<Atom(Digits, 1, 2), One(DashSlash), Atom(Digits, 1, 2),
                 One(DashSlash), Atom(Digits, 4, 4)>>,
        d |-> 1, m |-> 3, y |-> 5, named |-> FALSE, expand |-> FALSE],
       [re |-> <<Atom(Digits, 1, 2), One(DashSlash), Atom(Digits, 1, 2),
                 One(DashSlash), Atom(Digits, 2, 2)>>,
        d |-> 1, m |-> 3, y |-> 5, named |-> FALSE, expand |-> TRUE],
       [re |-> <<Atom(Digits, 4, 4), One({"."}), Atom(Digits, 1, 2),
                 One({"."}), Atom(Digits, 1, 2)>>,
        d |-> 5, m |-> 3, y |-> 1, named |-> FALSE, expand |-> FALSE],
       [re |-> <<Atom(Digits, 1, 2), One({"."}), Atom(Digits, 1, 2),
                 One({"."}), Atom(Digits, 4, 4)>>,
        d |-> 1, m |-> 3, y |-> 5, named |-> FALSE, expand |-> FALSE],
       [re |-> <<Atom(Digits, 1, 2), One({"."}), Atom(Digits, 1, 2),
                 One({"."}), Atom(Digits, 2, 2)>>,
        d |-> 1, m |-> 3, y |-> 5, named |-> FALSE, expand |-> TRUE],
       [re |-> <<Atom(Digits, 4, 4), Atom(Digits, 2, 2), Atom(Digits, 2, 2)>>,
        d |-> 3, m |-> 2, y |-> 1, named |-> FALSE, expand |-> FALSE] >>

\* pattern.extract(match): { day, month, year } or null
Extract(pat, s, lens) ==
    LET dS == Group(s, 1, lens, pat.d)
        mS == Group(s, 1, lens, pat.m)
        yS == Group(s, 1, lens, pat.y)
        mo == IF pat.named THEN MonthOf(ToLower(mS))
              ELSE [ok |-> TRUE, v |-> ToNum(mS) - 1]
        yr == IF pat.expand THEN expandYear(ToNum(yS)) ELSE ToNum(yS)
    IN  IF mo.ok
        THEN [ok |-> TRUE, day |-> ToNum(dS), month |-> mo.v, year |-> yr]
        ELSE [ok |-> FALSE]

IsLeap(y) == (y % 4 = 0 /\ y % 100 # 0) \/ y % 400 = 0

\* days of the 0-based month m of year y
DaysInMonth(y, m) ==
    IF m = 1 THEN (IF IsLeap(y) THEN 29 ELSE 28)
    ELSE IF m \in {3, 5, 8, 10} THEN 30 ELSE 31

\* new Date(year, month, day) for month in 0..11 and day in 1..31: a day past
\* the end of the month rolls over into the next month
NewDate(y, m, d) ==
    IF d <= DaysInMonth(y, m) THEN Date(y, m, d)
    ELSE IF m = 11 THEN Date(y + 1, 0, d - DaysInMonth(y, m))
    ELSE Date(y, m + 1, d - DaysInMonth(y, m))

At(s, i) == IF i \in 1..Len(s) THEN s[i] ELSE ""

Weekdays ==
    { <<"m", "o", "n">>, <<"t", "u", "e">>, <<"w", "e", "d">>, <<"t", "h", "u">>,
      <<"f", "r", "i">>, <<"s", "a", "t">>, <<"s", "u", "n">> }

\* cleaned.replace(/^(Mon|Tue|Wed|Thu|Fri|Sat|Sun)[a-z]*[,.]?\s*/i, "")
StripWeekday(s) ==
    IF Len(s) >= 3 /\ ToLower(SubSeq(s, 1, 3)) \in Weekdays
    THEN LET a == 4 + RunLen(Letters, s, 4)
             b == IF At(s, a) \in {",", "."} THEN a + 1 ELSE a
         IN  From(s, b + RunLen(Spaces, s, b))
    ELSE s

\* whether /\s+\d{1,2}:\d{2}/ matches s from position p on
TimeAt(s, p) ==
    /\ At(s, p) \in Spaces
    /\ LET q == p + RunLen(Spaces, s, p)
       IN  \/ /\ At(s, q) \in Digits /\ At(s, q + 1) = ":"
              /\ At(s, q + 2) \in Digits /\ At(s, q + 3) \in Digits
           \/ /\ At(s, q) \in Digits /\ At(s, q + 1) \in Digits
              /\ At(s, q + 2) = ":"
              /\ At(s, q + 3) \in Digits /\ At(s, q + 4) \in Digits

\* cleaned.replace(/\s+\d{1,2}:\d{2}(:\d{2})?\s*(AM|PM|am|pm)?.*$/, ""): the
\* leftmost match runs to the end of the string
StripTime(s) ==
    IF \E p \in 1..Len(s) : TimeAt(s, p)
    THEN SubSeq(s, 1, (CHOOSE p \in 1..Len(s) :
                         TimeAt(s, p) /\ \A q \in 1..(p - 1) : ~TimeAt(s, q)) - 1)
    ELSE s

Ordinals == { <<"s", "t">>, <<"n", "d">>, <<"r", "d">>, <<"t", "h">> }

\* cleaned.replace(/(\d)(st|nd|rd|th)\b/gi, "$1")
RECURSIVE StripOrdinalsFrom(_, _)
StripOrdinalsFrom(s, i) ==
    IF i > Len(s) THEN <<>>
    ELSE IF /\ s[i] \in Digits
            /\ i + 2 <= Len(s)
            /\ ToLower(SubSeq(s, i + 1, i + 2)) \in Ordinals
            /\ At(s, i + 3) \notin WordChars
         THEN <<s[i]>> \o StripOrdinalsFrom(s, i + 3)
         ELSE <<s[i]>> \o StripOrdinalsFrom(s, i + 1)

StripOrdinals(s) == StripOrdinalsFrom(s, 1)

\* the clean-up parseDate applies before matching
CleanDate(raw) == StripOrdinals(StripTime(StripWeekday(Trim(raw))))

\* one turn of the loop over DATE_PATTERNS: the date pattern k yields, or none
\* (no match, extract null, a field out of range, or a day that overflowed)
PatternDate(k, cleaned) ==
    LET Checked(parts) ==
            IF ~parts.ok THEN NoDate
            ELSE IF parts.month < 0 \/ parts.month > 11 THEN NoDate
            ELSE IF parts.day < 1 \/ parts.day > 31 THEN NoDate
            ELSE IF parts.year < MinYear \/ parts.year > MaxYear THEN NoDate
            ELSE IF NewDate(parts.year, parts.month, parts.day)
                        = Date(parts.year, parts.month, parts.day)
                 THEN Date(parts.year, parts.month, parts.day)
                 ELSE NoDate
        Parts(pat, mt) == IF mt.ok THEN Extract(pat, cleaned, mt.lens) ELSE [ok |-> FALSE]
        PartsOf(pat) == Parts(pat, FullMatch(pat.re, cleaned))
    IN  Checked(PartsOf(DATE_PATTERNS[k]))

\* NativeDate without the test of the year
NativeDateAnyYear(native) == native

\* the last resort: new Date(cleaned), accepted when its year is in range
NativeDate(native) ==
    IF native.ok /\ native.year >= MinYear /\ native.year <= MaxYear
    THEN native
    ELSE NoDate

\* the first of two results that is a date: the second is computed only when
\* the first is none
OrElse(first, second) == IF first.ok THEN first ELSE second

RECURSIVE PatternsFrom(_, _, _)
PatternsFrom(k, cleaned, native) ==
    IF k > Len(DATE_PATTERNS) THEN NativeDate(native)
    ELSE OrElse(PatternDate(k, cleaned), PatternsFrom(k + 1, cleaned, native))

\* parseDate(raw), where native is what the Date constructor makes of the
\* cleaned string (the format it accepts beyond ISO is the engine's choice)
parseDate(raw, native) ==
    IF raw = <<>> THEN NoDate
    ELSE PatternsFrom(1, CleanDate(raw), native)

-----------------------------------------------------------------------------
(* dateParser: extractDateFromText                                         *)

SepDashSlash == {"-", "/"}

dateRegexes ==
    << <<Atom(Digits, 4, 4), One(SepDashSlash), Atom(Digits, 1, 2),
         One(SepDashSlash), Atom(Digits, 1, 2)>>,
       <<Atom(Digits, 1, 2), One(SepDashSlash), Atom(Digits, 1, 2),
         One(SepDashSlash), Atom(Digits, 4, 4)>>,
       <<Atom(Digits, 1, 2), One(SepDashSlash), Atom(Digits, 1, 2),
         One(SepDashSlash), Atom(Digits, 2, 2), NotAhead(Digits)>>,
       <<Atom(Digits, 1, 2), One(SepDashSlash \cup Spaces), Atom(Letters, 3, 9),
         Star(SepDashSlash \cup Spaces \cup {","}), Atom(Digits, 2, 4)>>,
       <<Atom(Letters, 3, 9), Plus(Spaces), Atom(Digits, 1, 2), Opt({","}),
         Star(Spaces), Atom(Digits, 2, 4)>>,
       <<Atom(Digits, 1, 2), One({"."}), Atom(Digits, 1, 2), One({"."}),
         Atom(Digits, 2, 4)>> >>

\* what `new Date(text)` yields in the environment env, a list of the pairs
\* <<text, date>> of the strings the engine's own parser accepts besides the
\* patterns; the strings not listed yield an invalid date
NativeOf(env, text) ==
    IF \E i \in DOMAIN env : env[i][1] = text
    THEN env[CHOOSE i \in DOMAIN env : env[i][1] = text][2]
    ELSE NoDate

\* parseDate(raw) in the environment env
parseDateIn(env, raw) == parseDate(raw, NativeOf(env, CleanDate(raw)))

\* the loop over dateRegexes from regex k on
RECURSIVE ExtractFrom(_, _, _)
ExtractFrom(k, text, env) ==
    IF k > Len(dateRegexes) THEN NoDate
    ELSE LET Matched(m) ==
                 IF m.ok THEN parseDateIn(env, SubSeq(text, m.start, m.end - 1))
                 ELSE NoDate
         IN  OrElse(Matched(Search(dateRegexes[k], text)), ExtractFrom(k + 1, text, env))

\* extractDateFromText(text) in the environment env
extractDateFromText(text, env) ==
    IF text = <<>> THEN NoDate
    ELSE OrElse(parseDateIn(env, text), ExtractFrom(1, text, env))

-----------------------------------------------------------------------------
(* pdfParser: validateWithBalance                                          *)

NoNum == [ok |-> FALSE]
Num(v) == [ok |-> TRUE, v |-> v]

\* 0.01, the least balance difference validation acts on, in thousandths
BalanceEpsilon == 10
\* 0.02 and 1%, the tolerance between an amount and a balance difference
AmountSlack == 20
SlackPercent == 1

\* Math.abs(a - b) > b * 0.01 + 0.02, on thousandths (for integers x and n,
\* 100 * x > n exactly when x > n \div 100)
OutOfTolerance(a, b) == Abs(a - b) > (SlackPercent * b + 100 * AmountSlack) \div 100

\* transactions.filter((t) => t.balance !== undefined && t.balance !== null)
WithBalance(txns) == {i \in DOMAIN txns : txns[i].balance.ok}

\* ValidateStep that never replaces the magnitude of an amount
ValidateStepKeepsAmount(result, i) ==
    LET prev == result[i - 1]
        curr == result[i]
        balanceDiff == curr.balance.v - prev.balance.v
        expectedType == IF balanceDiff >= 0 THEN "income" ELSE "expense"
    IN  IF ~prev.balance.ok \/ ~curr.balance.ok THEN result
        ELSE IF Abs(balanceDiff) < BalanceEpsilon THEN result
        ELSE IF curr.type # expectedType
        THEN [result EXCEPT ![i].type = expectedType,
                            ![i].amount = IF expectedType = "expense"
                                          THEN -Abs(curr.amount)
                                          ELSE Abs(curr.amount)]
        ELSE result

\* ValidateStep that does not skip a pair of equal balances
ValidateStepNoEqualSkip(result, i) ==
    LET prev == result[i - 1]
        curr == result[i]
        balanceDiff == curr.balance.v - prev.balance.v
        expectedType == IF balanceDiff >= 0 THEN "income" ELSE "expense"
    IN  IF ~prev.balance.ok \/ ~curr.balance.ok THEN result
        ELSE IF curr.type # expectedType
        THEN [result EXCEPT ![i].type = expectedType,
                            ![i].amount = IF expectedType = "expense"
                                          THEN -Abs(curr.amount)
                                          ELSE Abs(curr.amount)]
        ELSE result

\* the loop body with `else if` before the test of the amount: the amount is
\* looked at only when the type needs no correction
ValidateStepOneCorrection(result, i) ==
    LET prev == result[i - 1]
        curr == result[i]
        balanceDiff == curr.balance.v - prev.balance.v
        expectedType == IF balanceDiff >= 0 THEN "income" ELSE "expense"
        trueTxnAmount == Abs(balanceDiff)
        typed == [curr EXCEPT !.type = expectedType,
                              !.amount = IF expectedType = "expense"
                                         THEN -Abs(curr.amount)
                                         ELSE Abs(curr.amount)]
        sized == IF /\ OutOfTolerance(Abs(curr.amount), trueTxnAmount)
                    /\ trueTxnAmount > BalanceEpsilon
                 THEN [curr EXCEPT !.amount = IF curr.type = "expense"
                                              THEN -trueTxnAmount
                                              ELSE trueTxnAmount]
                 ELSE curr
    IN  IF ~prev.balance.ok \/ ~curr.balance.ok THEN result
        ELSE IF Abs(balanceDiff) < BalanceEpsilon THEN result
        ELSE [result EXCEPT ![i] = IF curr.type # expectedType THEN typed ELSE sized]

\* the body of the loop of validateWithBalance for index i (1-based) of result
ValidateStep(result, i) ==
    LET prev == result[i - 1]
        curr == result[i]
        balanceDiff == curr.balance.v - prev.balance.v
        expectedType == IF balanceDiff >= 0 THEN "income" ELSE "expense"
        trueTxnAmount == Abs(balanceDiff)
        typed == IF curr.type # expectedType
                 THEN [curr EXCEPT !.type = expectedType,
                                   !.amount = IF expectedType = "expense"
                                              THEN -Abs(curr.amount)
                                              ELSE Abs(curr.amount)]
                 ELSE curr
        sized == IF /\ OutOfTolerance(Abs(curr.amount), trueTxnAmount)
                    /\ trueTxnAmount > BalanceEpsilon
                 THEN [typed EXCEPT !.amount = IF typed.type = "expense"
                                               THEN -trueTxnAmount
                                               ELSE trueTxnAmount]
                 ELSE typed
    IN  IF ~prev.balance.ok \/ ~curr.balance.ok THEN result
        ELSE IF Abs(balanceDiff) < BalanceEpsilon THEN result
        ELSE [result EXCEPT ![i] = sized]

\* for (let i = 1; i < result.length; i++), from index i on
RECURSIVE ValidateFrom(_, _)
ValidateFrom(result, i) ==
    IF i > Len(result) THEN result
    ELSE ValidateFrom(ValidateStep(result, i), i + 1)

\* ValidationApplies without the test of the length
ValidationAppliesAnyLength(txns) ==
    ~(2 * Cardinality(WithBalance(txns)) < Len(txns))

\* whether validateWithBalance goes on to its loop: at least 3 transactions,
\* at least half of them with a balance
ValidationApplies(txns) ==
    /\ ~(Len(txns) < 3)
    /\ ~(2 * Cardinality(WithBalance(txns)) < Len(txns))

validateWithBalance(txns) ==
    IF ValidationApplies(txns) THEN ValidateFrom(txns, 2) ELSE txns

\* the caller's array after the call: the loop writes to the copy
\* [...transactions] and replaces its elements by new objects
ArgumentAfterValidate(txns) == txns

-----------------------------------------------------------------------------
(* csvParser and xlsParser: column detection                               *)

\* the keyword lists of the delimited-text parser
CSV_KEYWORDS ==
    [date |-> <<<<"d", "a", "t", "e">>, <<"t", "x", "n", " ", "d", "a", "t", "e">>, <<"t", "r", "a", "n", "s", "a", "c", "t", "i", "o", "n", " ", "d", "a", "t", "e">>, <<"t", "r", "a", "n", "s", " ", "d", "a", "t", "e">>,
                <<"v", "a", "l", "u", "e", " ", "d", "a", "t", "e">>, <<"p", "o", "s", "t", "i", "n", "g", " ", "d", "a", "t", "e">>, <<"b", "o", "o", "k", " ", "d", "a", "t", "e">>, <<"d", "a", "t", "u", "m">>,
                <<"f", "e", "c", "h", "a">>, <<"t", "a", "r", "i", "k", "h">>, <<"t", "a", "n", "g", "g", "a", "l">>>>,
     desc |-> <<<<"d", "e", "s", "c", "r", "i", "p", "t", "i", "o", "n">>, <<"n", "a", "r", "r", "a", "t", "i", "o", "n">>, <<"p", "a", "r", "t", "i", "c", "u", "l", "a", "r", "s">>, <<"d", "e", "t", "a", "i", "l", "s">>,
                <<"m", "e", "m", "o">>, <<"r", "e", "f", "e", "r", "e", "n", "c", "e">>, <<"r", "e", "m", "a", "r", "k">>, <<"t", "r", "a", "n", "s", "a", "c", "t", "i", "o", "n", " ", "d", "e", "t", "a", "i", "l", "s">>,
                <<"m", "e", "r", "c", "h", "a", "n", "t">>, <<"p", "a", "y", "e", "e">>, <<"b", "e", "n", "e", "f", "i", "c", "i", "a", "r", "y">>, <<"n", "a", "m", "e">>,
                <<"k", "e", "t", "e", "r", "a", "n", "g", "a", "n">>>>,
     amount |-> <<<<"a", "m", "o", "u", "n", "t">>, <<"t", "r", "a", "n", "s", "a", "c", "t", "i", "o", "n", " ", "a", "m", "o", "u", "n", "t">>, <<"t", "x", "n", " ", "a", "m", "o", "u", "n", "t">>>>,
     debit |-> <<<<"d", "e", "b", "i", "t">>, <<"w", "i", "t", "h", "d", "r", "a", "w", "a", "l">>, <<"d", "r">>, <<"d", "e", "b", "i", "t", " ", "a", "m", "o", "u", "n", "t">>,
                 <<"w", "i", "t", "h", "d", "r", "a", "w", "a", "l", " ", "a", "m", "o", "u", "n", "t">>, <<"d", "e", "b", "i", "t", "(", "d", "r", ")">>, <<"m", "o", "n", "e", "y", " ", "o", "u", "t">>,
                 <<"s", "p", "e", "n", "t">>, <<"e", "x", "p", "e", "n", "s", "e">>>>,
     credit |-> <<<<"c", "r", "e", "d", "i", "t">>, <<"d", "e", "p", "o", "s", "i", "t">>, <<"c", "r">>, <<"c", "r", "e", "d", "i", "t", " ", "a", "m", "o", "u", "n", "t">>,
                  <<"d", "e", "p", "o", "s", "i", "t", " ", "a", "m", "o", "u", "n", "t">>, <<"c", "r", "e", "d", "i", "t", "(", "c", "r", ")">>, <<"m", "o", "n", "e", "y", " ", "i", "n">>,
                  <<"r", "e", "c", "e", "i", "v", "e", "d">>>>,
     type |-> <<<<"t", "y", "p", "e">>, <<"t", "r", "a", "n", "s", "a", "c", "t", "i", "o", "n", " ", "t", "y", "p", "e">>, <<"t", "x", "n", " ", "t", "y", "p", "e">>, <<"c", "r", "/", "d", "r">>,
                <<"d", "r", "/", "c", "r">>>>,
     balance |-> <<<<"b", "a", "l", "a", "n", "c", "e">>, <<"c", "l", "o", "s", "i", "n", "g", " ", "b", "a", "l", "a", "n", "c", "e">>, <<"r", "u", "n", "n", "i", "n", "g", " ", "b", "a", "l", "a", "n", "c", "e">>,
                   <<"a", "v", "a", "i", "l", "a", "b", "l", "e", " ", "b", "a", "l", "a", "n", "c", "e">>>>]

\* the keyword lists of the spreadsheet parser
XLS_KEYWORDS ==
    [date |-> <<<<"d", "a", "t", "e">>, <<"t", "x", "n", " ", "d", "a", "t", "e">>, <<"t", "r", "a", "n", "s", "a", "c", "t", "i", "o", "n", " ", "d", "a", "t", "e">>, <<"t", "r", "a", "n", "s", " ", "d", "a", "t", "e">>,
                <<"v", "a", "l", "u", "e", " ", "d", "a", "t", "e">>, <<"p", "o", "s", "t", "i", "n", "g", " ", "d", "a", "t", "e">>, <<"b", "o", "o", "k", " ", "d", "a", "t", "e">>, <<"d", "a", "t", "u", "m">>,
                <<"f", "e", "c", "h", "a">>>>,
     desc |-> <<<<"d", "e", "s", "c", "r", "i", "p", "t", "i", "o", "n">>, <<"n", "a", "r", "r", "a", "t", "i", "o", "n">>, <<"p", "a", "r", "t", "i", "c", "u", "l", "a", "r", "s">>, <<"d", "e", "t", "a", "i", "l", "s">>,
                <<"m", "e", "m", "o">>, <<"r", "e", "f", "e", "r", "e", "n", "c", "e">>, <<"r", "e", "m", "a", "r", "k">>, <<"t", "r", "a", "n", "s", "a", "c", "t", "i", "o", "n", " ", "d", "e", "t", "a", "i", "l", "s">>,
                <<"m", "e", "r", "c", "h", "a", "n", "t">>, <<"p", "a", "y", "e", "e">>, <<"b", "e", "n", "e", "f", "i", "c", "i", "a", "r", "y">>, <<"n", "a", "m", "e">>>>,
     amount |-> <<<<"a", "m", "o", "u", "n", "t">>, <<"t", "r", "a", "n", "s", "a", "c", "t", "i", "o", "n", " ", "a", "m", "o", "u", "n", "t">>, <<"t", "x", "n", " ", "a", "m", "o", "u", "n", "t">>>>,
     debit |-> <<<<"d", "e", "b", "i", "t">>, <<"w", "i", "t", "h", "d", "r", "a", "w", "a", "l">>, <<"d", "r">>, <<"d", "e", "b", "i", "t", " ", "a", "m", "o", "u", "n", "t">>,
                 <<"w", "i", "t", "h", "d", "r", "a", "w", "a", "l", " ", "a", "m", "o", "u", "n", "t">>, <<"m", "o", "n", "e", "y", " ", "o", "u", "t">>>>,
     credit |-> <<<<"c", "r", "e", "d", "i", "t">>, <<"d", "e", "p", "o", "s", "i", "t">>, <<"c", "r">>, <<"c", "r", "e", "d", "i", "t", " ", "a", "m", "o", "u", "n", "t">>,
                  <<"d", "e", "p", "o", "s", "i", "t", " ", "a", "m", "o", "u", "n", "t">>, <<"m", "o", "n", "e", "y", " ", "i", "n">>>>,
     type |-> <<<<"t", "y", "p", "e">>, <<"t", "r", "a", "n", "s", "a", "c", "t", "i", "o", "n", " ", "t", "y", "p", "e">>, <<"t", "x", "n", " ", "t", "y", "p", "e">>, <<"c", "r", "/", "d", "r">>,
                <<"d", "r", "/", "c", "r">>>>,
     balance |-> <<<<"b", "a", "l", "a", "n", "c", "e">>, <<"c", "l", "o", "s", "i", "n", "g", " ", "b", "a", "l", "a", "n", "c", "e">>, <<"r", "u", "n", "n", "i", "n", "g", " ", "b", "a", "l", "a", "n", "c", "e">>>>]

\* s with the characters outside keep removed: replace(/[^...]/g, "")
Keep(s, keep) == SelectSeq(s, LAMBDA c : c \in keep)

\* String.prototype.includes
Includes(s, kw) ==
    \E p \in 1..(Len(s) - Len(kw) + 1) : SubSeq(s, p, p + Len(kw) - 1) = kw

\* h.toLowerCase().replace(/[^a-z0-9\s/]/g, "").trim()
HeaderChars == Range(LowerSeq) \cup Digits \cup Spaces \cup {"/"}

normalizeHeader(h) == Trim(Keep(ToLower(h), HeaderChars))

matchesAny(header, keywords) ==
    LET h == normalizeHeader(header)
    IN  \E i \in DOMAIN keywords : h = keywords[i] \/ Includes(h, keywords[i])

\* findColumn: the position of the first header that matches, or none (0)
findColumn(headers, keywords) ==
    LET hits == {i \in DOMAIN headers : matchesAny(headers[i], keywords)}
    IN  IF hits = {} THEN 0 ELSE CHOOSE i \in hits : \A j \in hits : i <= j

\* detectColumns with the keyword lists kw; a column is the position of its
\* header, 0 when the role has no column
detectColumns(kw, headers) ==
    LET Unused(usedCols) ==
            SelectSeq([i \in DOMAIN headers |-> i], LAMBDA i : i \notin usedCols)
        Described(described, unused) ==
            IF described # <<>> THEN described
            ELSE IF unused # <<>> THEN <<unused[1]>>
            ELSE <<>>
        Mapping(dateCol, amountCol, debitCol, creditCol, typeCol, balanceCol) ==
            [dateCol |-> dateCol,
             descriptionCols |->
                 Described(SelectSeq([i \in DOMAIN headers |-> i],
                                     LAMBDA i : matchesAny(headers[i], kw.desc)),
                           Unused({dateCol, amountCol, debitCol, creditCol, typeCol,
                                   balanceCol} \ {0})),
             amountCol |-> amountCol,
             debitCol |-> debitCol,
             creditCol |-> creditCol,
             typeCol |-> typeCol,
             balanceCol |-> balanceCol]
    IN  Mapping(findColumn(headers, kw.date), findColumn(headers, kw.amount),
                findColumn(headers, kw.debit), findColumn(headers, kw.credit),
                findColumn(headers, kw.type), findColumn(headers, kw.balance))

\* a mapping is usable when it has a date column and a money column
MappingUsable(mapping) ==
    /\ mapping.dateCol # 0
    /\ (mapping.amountCol # 0 \/ mapping.debitCol # 0 \/ mapping.creditCol # 0)

-----------------------------------------------------------------------------
(* Amount normalisers: parseFloat, parseAmount (PDF), cleanAmount (CSV, XLS) *)

\* the currency symbols of the class [₹$€£¥₺₽₩₪₦₱₫৳฿] the model's strings use
CurrencySymbols == {"$"}

\* a string of fraction digits as thousandths (digits past the third dropped)
Thousandths(frac) ==
    ToNum(SubSeq(frac \o <<"0", "0", "0">>, 1, 3))

\* parseFloat(s): the longest prefix that is a decimal literal, in thousandths
\* (-0 is 0); NaN is [ok |-> FALSE].  No string of the model holds an exponent.
ParseFloat(s) ==
    LET Literal(t, p, nInt, nFrac) ==
            IF nInt = 0 /\ nFrac = 0 THEN NoNum
            ELSE Num((IF At(t, 1) = "-" THEN -1 ELSE 1)
                       * (1000 * ToNum(SubSeq(t, p, p + nInt - 1))
                            + Thousandths(SubSeq(t, p + nInt + 1, p + nInt + nFrac))))
        Fraction(t, p, nInt) ==
            Literal(t, p, nInt,
                    IF At(t, p + nInt) = "." THEN RunLen(Digits, t, p + nInt + 1) ELSE 0)
        Digits1(t, p) == Fraction(t, p, RunLen(Digits, t, p))
        Signed(t) == Digits1(t, IF At(t, 1) \in {"-", "+"} THEN 2 ELSE 1)
    IN  Signed(TrimLeft(s))

\* String.prototype.lastIndexOf, 1-based; 0 when c is not in s
LastIndexOf(s, c) ==
    IF \E i \in DOMAIN s : s[i] = c
    THEN CHOOSE i \in DOMAIN s : s[i] = c /\ \A j \in (i + 1)..Len(s) : s[j] # c
    ELSE 0

\* s.replace(",", "."): the first comma becomes a dot
ReplaceFirstComma(s) ==
    [i \in DOMAIN s |->
        IF s[i] = "," /\ \A j \in 1..(i - 1) : s[j] # "," THEN "." ELSE s[i]]

\* the handling of the decimal separator all three normalisers share: the comma
\* is the decimal mark when the last comma lies right of the last dot, is not
\* the first character, and 1 or 2 digits (at most 2 characters) follow it
DecimalSeparators(s) ==
    LET lastComma == LastIndexOf(s, ",")
        lastDot == LastIndexOf(s, ".")
        after == From(s, lastComma + 1)
    IN  IF lastComma > lastDot /\ lastComma > 1
        THEN IF Len(after) <= 2 /\ after # <<>> /\ \A i \in DOMAIN after : after[i] \in Digits
             THEN ReplaceFirstComma(Keep(s, Range(s) \ {"."}))
             ELSE Keep(s, Range(s) \ {","})
        ELSE Keep(s, Range(s) \ {","})

Parenthesized(s) == s # <<>> /\ Head(s) = "(" /\ s[Len(s)] = ")"

\* s.slice(1, -1)
Inner(s) == SubSeq(s, 2, Len(s) - 1)

\* parseAmount without the test num === 0
parseAmountKeepsZero(s) ==
    LET Signed(isNeg, num) ==
            IF ~num.ok THEN NoNum
            ELSE Num(IF isNeg THEN -num.v ELSE num.v)
        Unsigned(c1) == IF At(c1, 1) = "-" THEN Tail(c1) ELSE c1
        Cleaned(c0) ==
            IF c0 = <<>> \/ c0 = <<"-">> \/ c0 = <<"-", "-">> THEN NoNum
            ELSE Signed(Parenthesized(c0) \/ At(c0, 1) = "-",
                        ParseFloat(DecimalSeparators(
                            Unsigned(IF Parenthesized(c0) THEN Inner(c0) ELSE c0))))
    IN  Cleaned(Trim(Keep(s, Range(s) \ (CurrencySymbols \cup Spaces))))

\* pdfParser parseAmount(s)
parseAmount(s) ==
    LET Signed(isNeg, num) ==
            IF ~num.ok \/ num.v = 0 THEN NoNum
            ELSE Num(IF isNeg THEN -num.v ELSE num.v)
        Unsigned(c1) == IF At(c1, 1) = "-" THEN Tail(c1) ELSE c1
        Cleaned(c0) ==
            IF c0 = <<>> \/ c0 = <<"-">> \/ c0 = <<"-", "-">> THEN NoNum
            ELSE Signed(Parenthesized(c0) \/ At(c0, 1) = "-",
                        ParseFloat(DecimalSeparators(
                            Unsigned(IF Parenthesized(c0) THEN Inner(c0) ELSE c0))))
    IN  Cleaned(Trim(Keep(s, Range(s) \ (CurrencySymbols \cup Spaces))))

\* a cell of a row: a string (CSV, XLS), a number (XLS), or missing
StrCell(s) == [t |-> "str", s |-> s]
NumCell(v) == [t |-> "num", v |-> v]
NoCell == [t |-> "none"]

\* csvParser cleanAmount(raw)
csvCleanAmount(raw) ==
    IF raw.t # "str" THEN NoNum
    ELSE LET Signed(isNegative, num) ==
                 IF ~num.ok THEN NoNum
                 ELSE Num(IF isNegative THEN -Abs(num.v) ELSE num.v)
             Stripped(s1) ==
                 Keep(s1, Range(s1) \ (CurrencySymbols \cup Letters \cup Spaces))
             Trimmed(s0) ==
                 IF raw.s = <<>> \/ s0 = <<>> \/ s0 = <<"-">> \/ s0 = <<"-", "-">>
                     \/ ToLower(s0) = <<"n", "u", "l", "l">>
                 THEN NoNum
                 ELSE Signed(Parenthesized(s0),
                             ParseFloat(DecimalSeparators(
                                 Stripped(IF Parenthesized(s0) THEN Inner(s0) ELSE s0))))
         IN  Trimmed(Trim(raw.s))

\* xlsParser cleanAmount(raw)
xlsCleanAmount(raw) ==
    IF raw.t = "none" THEN NoNum
    ELSE IF raw.t = "num" THEN (IF raw.v = 0 THEN NoNum ELSE Num(raw.v))
    ELSE LET Signed(isNeg, num) ==
                 IF ~num.ok THEN NoNum
                 ELSE Num(IF isNeg THEN -Abs(num.v) ELSE num.v)
             Cleaned(c0) ==
                 Signed(Parenthesized(c0),
                        ParseFloat(DecimalSeparators(
                            IF Parenthesized(c0) THEN Inner(c0) ELSE c0)))
             Trimmed(s0) ==
                 IF s0 = <<>> \/ s0 = <<"-">> \/ s0 = <<"-", "-">> THEN NoNum
                 ELSE Cleaned(Keep(s0, Range(s0) \ (CurrencySymbols \cup Letters \cup Spaces)))
         IN  Trimmed(Trim(raw.s))

-----------------------------------------------------------------------------
(* csvParser and xlsParser: parseRow                                       *)

\* excelSerialToDate(serial) for a whole serial, the days since 1899-12-30
\* (serial 25569 is 1970-01-01), in a zone whose offset never changes
excelSerialToDate(serial) ==
    LET z == serial - 25569 + 719468
        era == z \div 146097
        doe == z - era * 146097
        yoe == (doe - doe \div 1460 + doe \div 36524 - doe \div 146096) \div 365
        doy == doe - (365 * yoe + yoe \div 4 - yoe \div 100)
        mp == (5 * doy + 2) \div 153
        d == doy - (153 * mp + 2) \div 5 + 1
        m == IF mp < 10 THEN mp + 3 ELSE mp - 9
        y == yoe + era * 400 + (IF m <= 2 THEN 1 ELSE 0)
    IN  IF serial < 1 \/ serial > 100000 THEN NoDate
        ELSE IF y < MinYear \/ y > MaxYear THEN NoDate
        ELSE Date(y, m - 1, d)

\* the fraction digits String(number) drops
RECURSIVE TrimRightZeros(_)
TrimRightZeros(s) ==
    IF s # <<>> /\ s[Len(s)] = "0" THEN TrimRightZeros(SubSeq(s, 1, Len(s) - 1)) ELSE s

\* String(n) for a natural number n
RECURSIVE NatStr(_)
NatStr(n) ==
    IF n < 10 THEN <<DigitSeq[n + 1]>>
    ELSE NatStr(n \div 10) \o <<DigitSeq[(n % 10) + 1]>>

\* String(v) for a number held in thousandths
NumStr(v) ==
    LET whole == NatStr(Abs(v) \div 1000)
        frac == TrimRightZeros(SubSeq(NatStr(1000 + (Abs(v) % 1000)), 2, 4))
    IN  (IF v < 0 THEN <<"-">> ELSE <<>>)
            \o whole \o (IF frac = <<>> THEN <<>> ELSE <<".">> \o frac)

\* String(cell) / the text of a cell
CellStr(cell) ==
    CASE cell.t = "str" -> cell.s
      [] cell.t = "num" -> NumStr(cell.v)
      [] OTHER -> <<>>

\* descParts.join(" — "): U+2014 is written as the character "EMDASH"
RECURSIVE JoinWith(_, _)
JoinWith(parts, sep) ==
    IF parts = <<>> THEN <<>>
    ELSE IF Len(parts) = 1 THEN parts[1]
    ELSE parts[1] \o sep \o JoinWith(Tail(parts), sep)

\* description || "Transaction"
OrTransaction(description) ==
    IF description = <<>> THEN <<"T", "r", "a", "n", "s", "a", "c", "t", "i", "o", "n">> ELSE description

\* the description parseRow builds from the description columns
RowDescription(cells, mapping) ==
    LET vals == [k \in DOMAIN mapping.descriptionCols |->
                    Trim(CellStr(cells[mapping.descriptionCols[k]]))]
        descParts == SelectSeq(vals, LAMBDA v : v # <<>>)
    IN  OrTransaction(Trim(JoinWith(descParts, <<" ", "EMDASH", " ">>)))

\* JSON.stringify(row) for the row with the given headers (no escapes)
RECURSIVE StringifyFrom(_, _, _)
StringifyFrom(headers, cells, i) ==
    IF i > Len(headers) THEN <<>>
    ELSE (IF i > 1 THEN <<",">> ELSE <<>>)
            \o <<"\"">> \o headers[i] \o <<"\"", ":">>
            \o (IF cells[i].t = "num" THEN NumStr(cells[i].v)
                ELSE <<"\"">> \o CellStr(cells[i]) \o <<"\"">>)
            \o StringifyFrom(headers, cells, i + 1)

JsonStringify(headers, cells) == <<"{">> \o StringifyFrom(headers, cells, 1) \o <<"}">>

NoTxn == [ok |-> FALSE]

\* parseRow letting a nonzero credit win over a nonzero debit
RowAmountCreditFirst(mapping, debit, credit, amount, rawType, expenseWords, incomeWords) ==
    IF credit.ok /\ credit.v # 0
    THEN [ok |-> TRUE, amount |-> Abs(credit.v), type |-> "income"]
    ELSE IF debit.ok /\ debit.v # 0
    THEN [ok |-> TRUE, amount |-> -Abs(debit.v), type |-> "expense"]
    ELSE NoTxn

\* the signed amount and the type parseRow derives, or none: row-specific
\* inputs are the normalised debit, credit and amount cells and the lower-case
\* trimmed type cell; expenseWords and incomeWords are the parser's type words
RowAmount(mapping, debit, credit, amount, rawType, expenseWords, incomeWords) ==
    IF mapping.debitCol # 0 /\ mapping.creditCol # 0
    THEN IF debit.ok /\ debit.v # 0 THEN [ok |-> TRUE, amount |-> -Abs(debit.v), type |-> "expense"]
         ELSE IF credit.ok /\ credit.v # 0 THEN [ok |-> TRUE, amount |-> Abs(credit.v), type |-> "income"]
         ELSE NoTxn
    ELSE IF mapping.amountCol # 0
    THEN IF ~amount.ok \/ amount.v = 0 THEN NoTxn
         ELSE IF mapping.typeCol # 0 /\ \E w \in expenseWords : Includes(rawType, w)
         THEN [ok |-> TRUE, amount |-> -Abs(amount.v), type |-> "expense"]
         ELSE IF mapping.typeCol # 0 /\ \E w \in incomeWords : Includes(rawType, w)
         THEN [ok |-> TRUE, amount |-> Abs(amount.v), type |-> "income"]
         ELSE [ok |-> TRUE, amount |-> amount.v,
               type |-> IF amount.v >= 0 THEN "income" ELSE "expense"]
    ELSE IF mapping.debitCol # 0
    THEN IF ~debit.ok \/ debit.v = 0 THEN NoTxn
         ELSE [ok |-> TRUE, amount |-> -Abs(debit.v), type |-> "expense"]
    ELSE IF mapping.creditCol # 0
    THEN IF ~credit.ok \/ credit.v = 0 THEN NoTxn
         ELSE [ok |-> TRUE, amount |-> Abs(credit.v), type |-> "income"]
    ELSE NoTxn

\* row[col] for a column of the mapping; a role without a column reads no cell
CellAt(cells, col) == IF col \in DOMAIN cells THEN cells[col] ELSE NoCell

Txn(id, date, description, amount, type, balance, originalText) ==
    [id |-> id, date |-> date, description |-> description,
     amount |-> amount, category |-> "other", type |-> type,
     balance |-> balance, originalText |-> originalText]

\* csvParser parseRow(row, mapping, _dateOrder): the date order is not read
csvParseRow(headers, row, mapping, dateOrder, id, env) ==
    LET Made(date, amt) ==
            IF ~date.ok THEN NoTxn
            ELSE IF ~amt.ok THEN NoTxn
            ELSE [ok |-> TRUE,
                  txn |-> Txn(id, date, RowDescription(row, mapping),
                              amt.amount, amt.type,
                              IF mapping.balanceCol # 0
                              THEN csvCleanAmount(CellAt(row, mapping.balanceCol))
                              ELSE NoNum,
                              JsonStringify(headers, row))]
        DateOf(rawDate) ==
            IF rawDate.t = "str" THEN parseDateIn(env, rawDate.s) ELSE NoDate
    IN  Made(DateOf(CellAt(row, mapping.dateCol)),
             RowAmount(mapping,
                       csvCleanAmount(CellAt(row, mapping.debitCol)),
                       csvCleanAmount(CellAt(row, mapping.creditCol)),
                       csvCleanAmount(CellAt(row, mapping.amountCol)),
                       Trim(ToLower(CellStr(CellAt(row, mapping.typeCol)))),
                       {<<"d", "e", "b", "i", "t">>, <<"d", "r">>, <<"w", "i", "t", "h", "d", "r", "a", "w", "a", "l">>, <<"e", "x", "p", "e", "n", "s", "e">>},
                       {<<"c", "r", "e", "d", "i", "t">>, <<"c", "r">>, <<"d", "e", "p", "o", "s", "i", "t">>, <<"i", "n", "c", "o", "m", "e">>}))

\* xlsParser parseRow(row, mapping)
xlsParseRow(headers, row, mapping, id, env) ==
    LET Made(date, amt) ==
            IF ~date.ok THEN NoTxn
            ELSE IF ~amt.ok THEN NoTxn
            ELSE [ok |-> TRUE,
                  txn |-> Txn(id, date, RowDescription(row, mapping),
                              amt.amount, amt.type,
                              IF mapping.balanceCol # 0
                              THEN xlsCleanAmount(CellAt(row, mapping.balanceCol))
                              ELSE NoNum,
                              JsonStringify(headers, row))]
        \* String(rawDate) of a cell that is no number: its text, or "undefined"
        DateOf(rawDate) ==
            IF rawDate.t = "num" THEN excelSerialToDate(rawDate.v \div 1000)
            ELSE parseDateIn(env, IF rawDate.t = "str" THEN rawDate.s
                                  ELSE <<"u", "n", "d", "e", "f", "i", "n", "e", "d">>)
    IN  Made(DateOf(CellAt(row, mapping.dateCol)),
             RowAmount(mapping,
                       xlsCleanAmount(CellAt(row, mapping.debitCol)),
                       xlsCleanAmount(CellAt(row, mapping.creditCol)),
                       xlsCleanAmount(CellAt(row, mapping.amountCol)),
                       Trim(ToLower(CellStr(CellAt(row, mapping.typeCol)))),
                       {<<"d", "e", "b", "i", "t">>, <<"d", "r">>, <<"w", "i", "t", "h", "d", "r", "a", "w", "a", "l">>},
                       {<<"c", "r", "e", "d", "i", "t">>, <<"c", "r">>, <<"d", "e", "p", "o", "s", "i", "t">>}))

-----------------------------------------------------------------------------
(* pdfParser: header classification, numeric items, column assignment      *)

\* COL_KEYWORDS in the order Object.entries lists it
COL_KEYWORDS ==
    << <<"date", <<<<"d", "a", "t", "e">>, <<"t", "x", "n", " ", "d", "a", "t", "e">>, <<"t", "r", "a", "n", "s", "a", "c", "t", "i", "o", "n", " ", "d", "a", "t", "e">>, <<"v", "a", "l", "u", "e", " ", "d", "a", "t", "e">>,
                   <<"p", "o", "s", "t", "i", "n", "g", " ", "d", "a", "t", "e">>, <<"b", "o", "o", "k", " ", "d", "a", "t", "e">>, <<"t", "x", "n", " ", "d", "t">>>> >>,
       <<"desc", <<<<"d", "e", "s", "c", "r", "i", "p", "t", "i", "o", "n">>, <<"n", "a", "r", "r", "a", "t", "i", "o", "n">>, <<"p", "a", "r", "t", "i", "c", "u", "l", "a", "r", "s">>, <<"d", "e", "t", "a", "i", "l", "s">>,
                   <<"t", "r", "a", "n", "s", "a", "c", "t", "i", "o", "n", " ", "d", "e", "t", "a", "i", "l", "s">>, <<"m", "e", "m", "o">>>> >>,
       <<"debit", <<<<"d", "e", "b", "i", "t">>, <<"d", "r">>, <<"w", "i", "t", "h", "d", "r", "a", "w", "a", "l">>, <<"w", "i", "t", "h", "d", "r", "a", "w", "a", "l", "s">>,
                    <<"m", "o", "n", "e", "y", " ", "o", "u", "t">>, <<"d", "e", "b", "i", "t", " ", "a", "m", "o", "u", "n", "t">>, <<"d", "e", "b", "i", "t", "(", "d", "r", ")">>, <<"s", "p", "e", "n", "t">>,
                    <<"d", "r", ".">>>> >>,
       <<"credit", <<<<"c", "r", "e", "d", "i", "t">>, <<"c", "r">>, <<"d", "e", "p", "o", "s", "i", "t">>, <<"d", "e", "p", "o", "s", "i", "t", "s">>, <<"m", "o", "n", "e", "y", " ", "i", "n">>,
                     <<"c", "r", "e", "d", "i", "t", " ", "a", "m", "o", "u", "n", "t">>, <<"c", "r", "e", "d", "i", "t", "(", "c", "r", ")">>, <<"r", "e", "c", "e", "i", "v", "e", "d">>, <<"c", "r", ".">>>> >>,
       <<"amount", <<<<"a", "m", "o", "u", "n", "t">>, <<"t", "r", "a", "n", "s", "a", "c", "t", "i", "o", "n", " ", "a", "m", "o", "u", "n", "t">>, <<"t", "x", "n", " ", "a", "m", "o", "u", "n", "t">>,
                     <<"t", "x", "n", " ", "a", "m", "t">>>> >>,
       <<"balance", <<<<"b", "a", "l", "a", "n", "c", "e">>, <<"c", "l", "o", "s", "i", "n", "g", " ", "b", "a", "l", "a", "n", "c", "e">>, <<"r", "u", "n", "n", "i", "n", "g", " ", "b", "a", "l", "a", "n", "c", "e">>,
                      <<"a", "v", "a", "i", "l", "a", "b", "l", "e", " ", "b", "a", "l", "a", "n", "c", "e">>, <<"c", "l", "o", "s", "i", "n", "g", " ", "b", "a", "l">>, <<"b", "a", "l">>>> >>,
       <<"type", <<<<"t", "y", "p", "e">>, <<"t", "r", "a", "n", "s", "a", "c", "t", "i", "o", "n", " ", "t", "y", "p", "e">>, <<"t", "x", "n", " ", "t", "y", "p", "e">>, <<"c", "r", "/", "d", "r">>,
                   <<"d", "r", "/", "c", "r">>>> >> >>

NoType == "none"

\* classifyHeaderItem(text): the first column type with a keyword that the
\* normalised text equals or contains, or none
classifyHeaderItem(text) ==
    LET Hit(catalog, norm, k) ==
            \E i \in DOMAIN catalog[k][2] :
                norm = catalog[k][2][i] \/ Includes(norm, catalog[k][2][i])
        Classified(catalog, norm) ==
            IF Len(norm) < 2 THEN NoType
            ELSE IF \E k \in DOMAIN catalog : Hit(catalog, norm, k)
            THEN catalog[CHOOSE k \in DOMAIN catalog :
                            \A j \in 1..k : Hit(catalog, norm, j) <=> j = k][1]
            ELSE NoType
    IN  Classified(COL_KEYWORDS,
                   Trim(Keep(ToLower(text),
                             Range(LowerSeq) \cup Digits \cup Spaces
                                 \cup {"/", "(", ")", "."})))

\* isNumericItem(text): only digits are left, and at least one, once currency
\* symbols, white space, commas, dots, parentheses and dashes are removed
isNumericItem(text) ==
    LET cleaned == SelectSeq(text, LAMBDA c :
                       c \notin CurrencySymbols \cup Spaces \cup {",", ".", "(", ")", "-"})
    IN  cleaned # <<>> /\ \A i \in DOMAIN cleaned : cleaned[i] \in Digits

\* line.items.map((it) => it.text).join("  ")
RECURSIVE LineTextFrom(_, _)
LineTextFrom(items, i) ==
    IF i > Len(items) THEN <<>>
    ELSE (IF i > 1 THEN <<" ", " ">> ELSE <<>>) \o items[i].text
            \o LineTextFrom(items, i + 1)

LineText(line) == LineTextFrom(line.items, 1)

\* the lines findHeaderRow scans, and the width it gives a header character
HeaderScanLines == 60
HeaderCharWidth == 6

\* the columns findHeaderRow builds from line i, or <<>> when line i is no header
HeaderColumns(line) ==
    LET Columns(types, idx) ==
            IF /\ Len(line.items) >= 2
               /\ "date" \in Range(types)
               /\ Range(types) \cap {"debit", "credit", "amount"} # {}
               /\ Len(idx) >= 2
            THEN [j \in DOMAIN idx |->
                    [type |-> types[idx[j]],
                     x |-> line.items[idx[j]].x,
                     xEnd |-> line.items[idx[j]].x
                                + Len(line.items[idx[j]].text) * HeaderCharWidth]]
            ELSE <<>>
        Classified(types) ==
            Columns(types,
                    SelectSeq([k \in DOMAIN line.items |-> k], LAMBDA k : types[k] # NoType))
    IN  Classified([k \in DOMAIN line.items |-> classifyHeaderItem(line.items[k].text)])

NoHeader == [ok |-> FALSE]

\* findHeaderRow looking at every line
findHeaderRowAnyLine(lines) ==
    LET Header(columns, h) == [ok |-> TRUE, columns |-> columns[h], headerIdx |-> h]
        First(columns) ==
            IF \E i \in DOMAIN columns : columns[i] # <<>>
            THEN Header(columns,
                        CHOOSE i \in DOMAIN columns :
                            \A j \in 1..i : columns[j] # <<>> <=> j = i)
            ELSE NoHeader
    IN  First([i \in 1..Len(lines) |-> HeaderColumns(lines[i])])

\* findHeaderRow(lines): the first of the first 60 lines that is a header row
\* (headerIdx is 1-based here)
findHeaderRow(lines) ==
    LET Header(columns, h) == [ok |-> TRUE, columns |-> columns[h], headerIdx |-> h]
        First(columns) ==
            IF \E i \in DOMAIN columns : columns[i] # <<>>
            THEN Header(columns,
                        CHOOSE i \in DOMAIN columns :
                            \A j \in 1..i : columns[j] # <<>> <=> j = i)
            ELSE NoHeader
    IN  First([i \in 1..Min(Len(lines), HeaderScanLines) |-> HeaderColumns(lines[i])])

\* the reach of a column beyond its span, and the greatest distance at which
\* a fragment is still assigned
ColumnReach == 40
MaxColumnDistance == 100

\* four times the effectiveDist assignToColumn computes for a column
EffectiveDist4(x, col) ==
    LET dist2 == Abs(2 * x - (col.x + col.xEnd))
        withinRange == x >= col.x - ColumnReach /\ x <= col.xEnd + ColumnReach
    IN  IF withinRange THEN dist2 ELSE 2 * dist2

\* assignToColumn with `effectiveDist <= bestDist`: the last of the nearest
\* columns is kept
assignToColumnLastOnTie(x, columns, targetTypes) ==
    LET Nearest(relevant, dist, best) ==
            IF dist[best] <= 4 * MaxColumnDistance THEN relevant[best].type ELSE NoType
        Best(relevant, dist) ==
            IF relevant = <<>> THEN NoType
            ELSE Nearest(relevant, dist,
                         CHOOSE k \in DOMAIN relevant :
                             /\ \A j \in DOMAIN relevant : dist[k] <= dist[j]
                             /\ \A j \in (k + 1)..Len(relevant) : dist[j] > dist[k])
        Relevant(relevant) ==
            Best(relevant, [k \in DOMAIN relevant |-> EffectiveDist4(x, relevant[k])])
    IN  Relevant(SelectSeq(columns, LAMBDA c : c.type \in targetTypes))

\* assignToColumn(x, columns, targetTypes): the type of the first column of
\* the least effective distance, when that distance is at most 100
assignToColumn(x, columns, targetTypes) ==
    LET Nearest(relevant, dist, best) ==
            IF dist[best] <= 4 * MaxColumnDistance THEN relevant[best].type ELSE NoType
        Best(relevant, dist) ==
            IF relevant = <<>> THEN NoType
            ELSE Nearest(relevant, dist,
                         CHOOSE k \in DOMAIN relevant :
                             /\ \A j \in DOMAIN relevant : dist[k] <= dist[j]
                             /\ \A j \in 1..(k - 1) : dist[j] > dist[k])
        Relevant(relevant) ==
            Best(relevant, [k \in DOMAIN relevant |-> EffectiveDist4(x, relevant[k])])
    IN  Relevant(SelectSeq(columns, LAMBDA c : c.type \in targetTypes))

-----------------------------------------------------------------------------
(* pdfParser: columnBasedParse                                             *)

NoCurrent == [ok |-> FALSE]

MoneyTypes == {"debit", "credit", "amount", "balance"}

\* /\b(page|total|opening balance|closing balance|statement|account)\b/i
SummaryWords ==
    <<WordBoundary,
      Alt(<<Lit(<<"p", "a", "g", "e">>), Lit(<<"t", "o", "t", "a", "l">>), Lit(<<"o", "p", "e", "n", "i", "n", "g", " ", "b", "a", "l", "a", "n", "c", "e">>),
            Lit(<<"c", "l", "o", "s", "i", "n", "g", " ", "b", "a", "l", "a", "n", "c", "e">>), Lit(<<"s", "t", "a", "t", "e", "m", "e", "n", "t">>), Lit(<<"a", "c", "c", "o", "u", "n", "t">>)>>),
      WordBoundary>>

\* number.toFixed(2) of an amount in thousandths, as a number of hundredths
ToFixed2(v) == (v + 5) \div 10

\* the characters of the description and of the line text that are kept
KeyDescriptionLen == 30
OriginalTextLen == 200

\* s.substring(0, n)
Take(s, n) == SubSeq(s, 1, Min(n, Len(s)))

\* the dedup key: `${date.toISOString().slice(0, 10)}|${abs.toFixed(2)}|${description.substring(0, 30)}`
DedupKey(date, absAmount, description) ==
    <<date.year, date.month, date.day, ToFixed2(absAmount),
      Take(description, KeyDescriptionLen)>>

\* ti.includes("dr") || ti.includes("debit") || ti.includes("withdrawal")
SaysDebit(ti) ==
    Includes(ti, <<"d", "r">>) \/ Includes(ti, <<"d", "e", "b", "i", "t">>) \/ Includes(ti, <<"w", "i", "t", "h", "d", "r", "a", "w", "a", "l">>)

SaysCredit(ti) ==
    Includes(ti, <<"c", "r">>) \/ Includes(ti, <<"c", "r", "e", "d", "i", "t">>) \/ Includes(ti, <<"d", "e", "p", "o", "s", "i", "t">>)

\* finalizeTxn taking the amount as it is parsed when the type indicator
\* names the type
ResolveAmountKeepsSign(cur, has) ==
    LET ti == ToLower(cur.typeIndicator)
    IN  IF "debit" \in has /\ "credit" \in has
        THEN IF cur.debit.ok /\ cur.debit.v > 0
             THEN [ok |-> TRUE, amount |-> -cur.debit.v, type |-> "expense"]
             ELSE IF cur.credit.ok /\ cur.credit.v > 0
             THEN [ok |-> TRUE, amount |-> cur.credit.v, type |-> "income"]
             ELSE [ok |-> FALSE]
        ELSE IF "amount" \in has /\ cur.amount.ok
        THEN IF "type" \in has /\ SaysDebit(ti)
             THEN [ok |-> TRUE, amount |-> cur.amount.v, type |-> "expense"]
             ELSE IF "type" \in has /\ SaysCredit(ti)
             THEN [ok |-> TRUE, amount |-> cur.amount.v, type |-> "income"]
             ELSE [ok |-> TRUE, amount |-> cur.amount.v,
                   type |-> IF cur.amount.v >= 0 THEN "income" ELSE "expense"]
        ELSE IF "debit" \in has /\ cur.debit.ok /\ cur.debit.v > 0
        THEN [ok |-> TRUE, amount |-> -cur.debit.v, type |-> "expense"]
        ELSE IF "credit" \in has /\ cur.credit.ok /\ cur.credit.v > 0
        THEN [ok |-> TRUE, amount |-> cur.credit.v, type |-> "income"]
        ELSE [ok |-> FALSE]

\* the signed amount and the type finalizeTxn resolves for the candidate cur,
\* has being the set of the column types of the header row
ResolveAmount(cur, has) ==
    LET ti == ToLower(cur.typeIndicator)
    IN  IF "debit" \in has /\ "credit" \in has
        THEN IF cur.debit.ok /\ cur.debit.v > 0
             THEN [ok |-> TRUE, amount |-> -cur.debit.v, type |-> "expense"]
             ELSE IF cur.credit.ok /\ cur.credit.v > 0
             THEN [ok |-> TRUE, amount |-> cur.credit.v, type |-> "income"]
             ELSE [ok |-> FALSE]
        ELSE IF "amount" \in has /\ cur.amount.ok
        THEN IF "type" \in has /\ SaysDebit(ti)
             THEN [ok |-> TRUE, amount |-> -Abs(cur.amount.v), type |-> "expense"]
             ELSE IF "type" \in has /\ SaysCredit(ti)
             THEN [ok |-> TRUE, amount |-> Abs(cur.amount.v), type |-> "income"]
             ELSE [ok |-> TRUE, amount |-> cur.amount.v,
                   type |-> IF cur.amount.v >= 0 THEN "income" ELSE "expense"]
        ELSE IF "debit" \in has /\ cur.debit.ok /\ cur.debit.v > 0
        THEN [ok |-> TRUE, amount |-> -cur.debit.v, type |-> "expense"]
        ELSE IF "credit" \in has /\ cur.credit.ok /\ cur.credit.v > 0
        THEN [ok |-> TRUE, amount |-> cur.credit.v, type |-> "income"]
        ELSE [ok |-> FALSE]

\* descParts.join(" ")
JoinParts(parts) == JoinWith(parts, <<" ">>)

\* finalizeTxn without the check of the keys seen
finalizeTxnKeepsDuplicates(st, has, id0) ==
    LET Pushed(cur, final, description) ==
            [st EXCEPT
                !.transactions = Append(@,
                    Txn(id0 + Len(st.transactions), cur.date, description,
                        final.amount, final.type, cur.balance,
                        Take(cur.lineText, OriginalTextLen)))]
        Resolved(cur, final) ==
            IF ~final.ok \/ final.amount = 0 THEN st
            ELSE Pushed(cur, final,
                        OrTransaction(Trim(CollapseSpaces(JoinParts(cur.descParts)))))
    IN  IF ~st.currentTxn.ok THEN st
        ELSE Resolved(st.currentTxn, ResolveAmount(st.currentTxn, has))

\* finalizeTxn: st holds currentTxn, seen and transactions; id0 is the
\* identifier the first transaction of this strategy gets
finalizeTxn(st, has, id0) ==
    LET Pushed(cur, final, description, key) ==
            IF key \in st.seen THEN st
            ELSE [st EXCEPT
                    !.seen = @ \cup {key},
                    !.transactions = Append(@,
                        Txn(id0 + Len(st.transactions), cur.date, description,
                            final.amount, final.type, cur.balance,
                            Take(cur.lineText, OriginalTextLen)))]
        Described(cur, final, description) ==
            Pushed(cur, final, description,
                   DedupKey(cur.date, Abs(final.amount), description))
        Resolved(cur, final) ==
            IF ~final.ok \/ final.amount = 0 THEN st
            ELSE Described(cur, final,
                           OrTransaction(Trim(CollapseSpaces(JoinParts(cur.descParts)))))
    IN  IF ~st.currentTxn.ok THEN st
        ELSE Resolved(st.currentTxn, ResolveAmount(st.currentTxn, has))

\* a numeric item of a line: its amount goes to the column nearest to it
PlaceAmount(cur, item, columns) ==
    LET Placed(amt, colType) ==
            IF ~amt.ok THEN cur
            ELSE CASE colType = "debit" -> [cur EXCEPT !.debit = Num(Abs(amt.v))]
                   [] colType = "credit" -> [cur EXCEPT !.credit = Num(Abs(amt.v))]
                   [] colType = "amount" -> [cur EXCEPT !.amount = amt]
                   [] colType = "balance" -> [cur EXCEPT !.balance = amt]
                   [] OTHER -> cur
    IN  Placed(parseAmount(item.text), assignToColumn(item.x, columns, MoneyTypes))

\* the items of a dated line, from item k on
RECURSIVE DatedItems(_, _, _, _, _, _)
DatedItems(cur, items, k, columns, has, env) ==
    IF k > Len(items) THEN cur
    ELSE DatedItems(IF isNumericItem(items[k].text)
                    THEN PlaceAmount(cur, items[k], columns)
                    ELSE IF "type" \in has
                            /\ assignToColumn(items[k].x, columns, {"type"}) = "type"
                    THEN [cur EXCEPT !.typeIndicator = items[k].text]
                    ELSE IF ~extractDateFromText(items[k].text, env).ok
                    THEN [cur EXCEPT !.descParts = Append(@, items[k].text)]
                    ELSE cur,
                    items, k + 1, columns, has, env)

\* the items of a continuation line, from item k on
RECURSIVE ContinuationItems(_, _, _, _)
ContinuationItems(cur, items, k, columns) ==
    IF k > Len(items) THEN cur
    ELSE ContinuationItems(IF isNumericItem(items[k].text)
                           THEN PlaceAmount(cur, items[k], columns)
                           ELSE [cur EXCEPT !.descParts = Append(@, items[k].text)],
                           items, k + 1, columns)

\* currentTxn as a dated line opens it
FreshTxn(date, lineText) ==
    [ok |-> TRUE, date |-> date, descParts |-> <<>>,
     debit |-> NoNum, credit |-> NoNum, amount |-> NoNum,
     balance |-> NoNum, typeIndicator |-> <<>>, lineText |-> lineText]

\* the body of the loop opening a candidate only when none is open: a dated
\* line is merged into the open candidate
ScanDatedOpensWhenNoneOpen(st, line, lineText, date, columns, has, id0, env) ==
    IF Test(SummaryWords, ToLower(lineText)) /\ ~date.ok THEN st
    ELSE IF date.ok /\ ~st.currentTxn.ok
    THEN [finalizeTxn(st, has, id0) EXCEPT
            !.currentTxn = DatedItems(FreshTxn(date, lineText), line.items, 1,
                                      columns, has, env)]
    ELSE IF st.currentTxn.ok
    THEN [st EXCEPT
            !.currentTxn =
                [ContinuationItems(@, line.items, 1, columns) EXCEPT
                    !.lineText = @ \o <<" ">> \o lineText]]
    ELSE st

\* the body of the loop without the test for page headers, footers and
\* summaries
ScanDatedContinuesSummaries(st, line, lineText, date, columns, has, id0, env) ==
    IF date.ok
    THEN [finalizeTxn(st, has, id0) EXCEPT
            !.currentTxn = DatedItems(FreshTxn(date, lineText), line.items, 1,
                                      columns, has, env)]
    ELSE IF st.currentTxn.ok
    THEN [st EXCEPT
            !.currentTxn =
                [ContinuationItems(@, line.items, 1, columns) EXCEPT
                    !.lineText = @ \o <<" ">> \o lineText]]
    ELSE st

\* the body of the loop over the lines after the header, for a line whose
\* text is lineText and whose date is date
ScanDated(st, line, lineText, date, columns, has, id0, env) ==
    IF Test(SummaryWords, ToLower(lineText)) /\ ~date.ok THEN st
    ELSE IF date.ok
    THEN [finalizeTxn(st, has, id0) EXCEPT
            !.currentTxn = DatedItems(FreshTxn(date, lineText), line.items, 1,
                                      columns, has, env)]
    ELSE IF st.currentTxn.ok
    THEN [st EXCEPT
            !.currentTxn =
                [ContinuationItems(@, line.items, 1, columns) EXCEPT
                    !.lineText = @ \o <<" ">> \o lineText]]
    ELSE st

\* the body of the loop over the lines after the header, for line i
ColumnScanLine(st, line, columns, has, id0, env) ==
    ScanDated(st, line, LineText(line), extractDateFromText(LineText(line), env),
              columns, has, id0, env)

RECURSIVE ColumnScanFrom(_, _, _, _, _, _, _)
ColumnScanFrom(st, lines, i, columns, has, id0, env) ==
    IF i > Len(lines) THEN st
    ELSE ColumnScanFrom(ColumnScanLine(st, lines[i], columns, has, id0, env),
                        lines, i + 1, columns, has, id0, env)

\* the types of the columns of the header row
HeaderTypes(headerInfo) ==
    {headerInfo.columns[k].type : k \in DOMAIN headerInfo.columns}

\* columnBasedParse(lines) once findHeaderRow has returned headerInfo
ScanUnder(headerInfo, lines, id0, env) ==
    IF ~headerInfo.ok THEN <<>>
    ELSE finalizeTxn(ColumnScanFrom([currentTxn |-> NoCurrent, seen |-> {},
                                     transactions |-> <<>>],
                                    lines, headerInfo.headerIdx + 1, headerInfo.columns,
                                    HeaderTypes(headerInfo), id0, env),
                     HeaderTypes(headerInfo), id0).transactions

\* columnBasedParse with a set `seen` that outlives the call: the rows of a
\* document parsed after another one are taken as seen
columnBasedParseSeenKept(lines, id0, env) ==
    IF id0 > 1 THEN <<>> ELSE ScanUnder(findHeaderRow(lines), lines, id0, env)

\* columnBasedParse(lines)
columnBasedParse(lines, id0, env) == ScanUnder(findHeaderRow(lines), lines, id0, env)

-----------------------------------------------------------------------------
(* pdfParser: textBasedParse and cleanDescription                          *)

\* the characters the model's strings are written in, and \S
Alphabet ==
    Digits \cup Letters \cup Spaces \cup CurrencySymbols
        \cup {"-", "/", ".", ",", ":", "(", ")", "_", "\"", "{", "}", "|", "#", "*", "EMDASH"}
NonSpace == Alphabet \ Spaces

\* /(?:[₹$€...]\s*)?[\d,]+\.?\d*|\d+[.,]\d{2}/g
amountRegex ==
    <<Alt(<< <<Alt(<< <<One(CurrencySymbols), Star(Spaces)>>, <<>> >>),
               Plus(Digits \cup {","}), Opt({"."}), Star(Digits)>>,
             <<Plus(Digits), One({".", ","}), Atom(Digits, 2, 2)>> >>)>>

\* the least amount kept (0.01), the least balance step that must be matched
\* (0.1): thousandths
LeastAmount == 10
LeastCheckedStep == 100

\* Math.abs(a - diff) < diff * 0.01 + 0.02 (for integers x and n >= 1,
\* 100 * x < n exactly when x <= (n - 1) \div 100)
NearStep(a, diff) == Abs(a - diff) <= (SlackPercent * diff + 100 * AmountSlack - 1) \div 100

\* the amounts of an entry: the absolute values of the matches that parse
RECURSIVE EntryAmounts(_)
EntryAmounts(matches) ==
    IF matches = <<>> THEN <<>>
    ELSE LET Kept(a) == IF a.ok /\ Abs(a.v) >= LeastAmount THEN <<Abs(a.v)>> ELSE <<>>
         IN  Kept(parseAmount(Head(matches))) \o EntryAmounts(Tail(matches))

\* the lines after a dated line that an entry absorbs
ContextLines == 4

\* fullText of the entry of line i: the line and the following lines up to the
\* next dated one, at most four
RECURSIVE ContextFrom(_, _, _, _)
ContextFrom(lines, j, last, env) ==
    IF j > last \/ extractDateFromText(LineText(lines[j]), env).ok THEN <<>>
    ELSE <<" ">> \o LineText(lines[j]) \o ContextFrom(lines, j + 1, last, env)

\* the entry of a line dated date, fullText being its text and context: none
\* unless the line is dated and an amount is found
EntryOf(date, fullText) ==
    LET Entry(amounts) ==
            IF date.ok /\ amounts # <<>>
            THEN <<[date |-> date, text |-> fullText, amounts |-> amounts]>>
            ELSE <<>>
    IN  Entry(EntryAmounts(MatchAll(amountRegex, fullText)))

\* the raw entries, from line i on
RECURSIVE EntriesFrom(_, _, _)
EntriesFrom(lines, i, env) ==
    IF i > Len(lines) THEN <<>>
    ELSE EntryOf(extractDateFromText(LineText(lines[i]), env),
                 LineText(lines[i])
                    \o ContextFrom(lines, i + 1, Min(i + ContextLines, Len(lines)), env))
            \o EntriesFrom(lines, i + 1, env)

\* text.replace(pattern, "") for a global pattern, and for a global pattern
\* that ignores case
Remove(pattern, text) == RemoveAll(pattern, text, text)
RemoveIgnoringCase(pattern, text) == RemoveAll(pattern, ToLower(text), text)

\* cleanDescription(text)
cleanDescription(text) ==
    OrTransaction(Trim(CollapseSpaces(
        Remove(<<Atom(Digits, 2, 2), One({":"}), Atom(Digits, 2, 2), Star(Spaces),
                 Alt(<<Lit(<<"a", "m">>), Lit(<<"p", "m">>), Lit(<<"A", "M">>), Lit(<<"P", "M">>), <<>> >>)>>,
        RemoveIgnoringCase(
               <<WordBoundary,
                 Alt(<<Lit(<<"t", "r", "a", "n", "s", "a", "c", "t", "i", "o", "n", " ", "i", "d">>),
                       Lit(<<"u", "t", "r", " ", "n", "o">>) \o <<Opt({"."})>>,
                       Lit(<<"r", "e", "f">>) \o <<Opt({"."}), Star(Spaces)>>
                           \o Lit(<<"n", "o">>) \o <<Opt({"."})>> >>),
                 Star(Spaces), Plus(NonSpace)>>,
        RemoveIgnoringCase(
               <<WordBoundary,
                 Alt(<<Lit(<<"c", "r", "e", "d", "i", "t">>), Lit(<<"d", "e", "b", "i", "t">>), Lit(<<"c", "r">>), Lit(<<"d", "r">>),
                       Lit(<<"c", "r", "e", "d", "i", "t", "e", "d">>), Lit(<<"d", "e", "b", "i", "t", "e", "d">>)>>),
                 WordBoundary>>,
        Remove(<<WordBoundary, Plus(Digits \cup {","}), One({"."}),
                 Atom(Digits, 2, 2), WordBoundary>>,
        Remove(<<One(CurrencySymbols), Star(Spaces), Plus(Digits \cup {","}),
                 Opt({"."}), Star(Digits)>>,
        Remove(<<Atom(Digits, 1, 2), One({"-", "/", "."}), Atom(Digits, 1, 2),
                 One({"-", "/", "."}), Atom(Digits, 2, 4)>>,
        Remove(<<Atom(Digits, 4, 4), One(SepDashSlash), Atom(Digits, 1, 2),
                 One(SepDashSlash), Atom(Digits, 1, 2)>>,
        Remove(<<Atom(WordChars, 3, 9), Plus(Spaces), Atom(Digits, 1, 2),
                 Opt({","}), Star(Spaces), Atom(Digits, 2, 4)>>,
        Remove(<<Atom(Digits, 1, 2), One({"-", "/", " ", "."}),
                 Atom(WordChars, 3, 9), Star({"-", "/", " ", ".", ","}),
                 Atom(Digits, 2, 4)>>, text))))))))))))

creditPatterns ==
    <<WordBoundary,
      Alt(<<Lit(<<"c", "r", "e", "d", "i", "t">>), Lit(<<"c", "r">>), Lit(<<"c", "r", "e", "d", "i", "t", "e", "d">>), Lit(<<"d", "e", "p", "o", "s", "i", "t">>),
            Lit(<<"r", "e", "c", "e", "i", "v", "e", "d">>), Lit(<<"i", "n", "c", "o", "m", "e">>), Lit(<<"r", "e", "f", "u", "n", "d">>), Lit(<<"c", "a", "s", "h", "b", "a", "c", "k">>)>>),
      WordBoundary>>

debitPatterns ==
    <<WordBoundary,
      Alt(<<Lit(<<"d", "e", "b", "i", "t">>), Lit(<<"d", "r">>), Lit(<<"d", "e", "b", "i", "t", "e", "d">>), Lit(<<"w", "i", "t", "h", "d", "r", "a", "w">>),
            Lit(<<"w", "i", "t", "h", "d", "r", "a", "w", "a", "l">>), Lit(<<"p", "a", "i", "d">>), Lit(<<"p", "a", "y", "m", "e", "n", "t">>), Lit(<<"p", "u", "r", "c", "h", "a", "s", "e">>),
            Lit(<<"s", "p", "e", "n", "t">>), Lit(<<"e", "x", "p", "e", "n", "s", "e">>), Lit(<<"s", "e", "n", "t">>)>>),
      WordBoundary>>

\* the entries the balance check looks at, and the least number of entries
CheckedEntries == 10
LeastTrackedEntries == 3

Last(s) == s[Len(s)]
Front(s) == SubSeq(s, 1, Len(s) - 1)

\* the validation loop of balance tracking from entry i on, prevBalance being
\* the balance of the entry before
RECURSIVE BalanceTrackingValid(_, _, _)
BalanceTrackingValid(entries, i, prevBalance) ==
    IF i > Min(Len(entries), CheckedEntries) THEN TRUE
    ELSE IF Len(entries[i].amounts) < 2 THEN FALSE
    ELSE LET balance == Last(entries[i].amounts)
             diff == Abs(balance - prevBalance.v)
             hasMatch == \E k \in 1..(Len(entries[i].amounts) - 1) :
                             NearStep(entries[i].amounts[k], diff)
         IN  IF prevBalance.ok /\ ~hasMatch /\ diff > LeastCheckedStep THEN FALSE
             ELSE BalanceTrackingValid(entries, i + 1, Num(balance))

\* st with the transaction made of an entry, unless its key was seen
PushUnlessSeen(st, entry, id0, finalAmount, type, balance) ==
    LET Pushed(description, key) ==
            IF key \in st.seen THEN st
            ELSE [seen |-> st.seen \cup {key},
                  transactions |-> Append(st.transactions,
                      Txn(id0 + Len(st.transactions), entry.date, description,
                          IF type = "expense" THEN -finalAmount ELSE finalAmount,
                          type, balance, Take(entry.text, OriginalTextLen)))]
        Described(description) ==
            Pushed(description, DedupKey(entry.date, finalAmount, description))
    IN  Described(cleanDescription(entry.text))

\* diff: the balance of an entry less the balance before it
BalanceStep(entry, prevBalance) == Last(entry.amounts) - prevBalance.v

\* matchingAmount || otherAmounts[0] || txnAmount
FinalAmount(otherAmounts, txnAmount) ==
    LET Pick(matching) ==
            IF matching # <<>> THEN matching[1]
            ELSE IF otherAmounts # <<>> THEN otherAmounts[1]
            ELSE txnAmount
    IN  Pick(SelectSeq(otherAmounts, LAMBDA a : NearStep(a, txnAmount)))

\* the body of the balance loop for an entry, but for prevBalance
TrackEntry(st, entry, prevBalance, id0, diff, finalAmount) ==
    IF ~prevBalance.ok \/ finalAmount < LeastAmount THEN st
    ELSE PushUnlessSeen(st, entry, id0, finalAmount,
                        IF diff >= 0 THEN "income" ELSE "expense",
                        Num(Last(entry.amounts)))

\* the loop that derives type and amount from the balances, stopping where
\* the validation loop stops
RECURSIVE TrackBalancesCheckedOnly(_, _, _, _, _)
TrackBalancesCheckedOnly(st, entries, i, prevBalance, id0) ==
    IF i > Min(Len(entries), CheckedEntries) THEN st
    ELSE TrackBalancesCheckedOnly(
            TrackEntry(st, entries[i], prevBalance, id0,
                       BalanceStep(entries[i], prevBalance),
                       FinalAmount(Front(entries[i].amounts),
                                   Abs(BalanceStep(entries[i], prevBalance)))),
            entries, i + 1, Num(Last(entries[i].amounts)), id0)

\* the loop that derives type and amount from the balances, from entry i on
RECURSIVE TrackBalances(_, _, _, _, _)
TrackBalances(st, entries, i, prevBalance, id0) ==
    IF i > Len(entries) THEN st
    ELSE TrackBalances(
            TrackEntry(st, entries[i], prevBalance, id0,
                       BalanceStep(entries[i], prevBalance),
                       FinalAmount(Front(entries[i].amounts),
                                   Abs(BalanceStep(entries[i], prevBalance)))),
            entries, i + 1, Num(Last(entries[i].amounts)), id0)

\* hasCredit && !hasDebit ? "income" : "expense"
KeywordType(text) ==
    IF Test(creditPatterns, ToLower(text)) /\ ~Test(debitPatterns, ToLower(text))
    THEN "income" ELSE "expense"

\* the keyword-based loop, from entry i on
RECURSIVE TypeByKeywords(_, _, _, _)
TypeByKeywords(st, entries, i, id0) ==
    IF i > Len(entries) THEN st
    ELSE TypeByKeywords(
            IF entries[i].amounts[1] < LeastAmount THEN st
            ELSE PushUnlessSeen(st, entries[i], id0, entries[i].amounts[1],
                                KeywordType(entries[i].text),
                                IF Len(entries[i].amounts) >= 2
                                THEN Num(Last(entries[i].amounts)) ELSE NoNum),
            entries, i + 1, id0)

\* the transactions of balance tracking: none when it is not valid
Tracked(entries, id0) ==
    IF Len(entries) >= LeastTrackedEntries /\ BalanceTrackingValid(entries, 1, NoNum)
    THEN TrackBalances([seen |-> {}, transactions |-> <<>>], entries, 1, NoNum,
                       id0).transactions
    ELSE <<>>

\* the result for the entries, tracked being what balance tracking yields
TextBranch(entries, tracked, id0) ==
    IF tracked # <<>> THEN [branch |-> "balance", transactions |-> tracked]
    ELSE [branch |-> "keywords",
          transactions |-> TypeByKeywords([seen |-> {}, transactions |-> <<>>],
                                          entries, 1, id0).transactions]

TextResultOf(entries, id0) == TextBranch(entries, Tracked(entries, id0), id0)

\* textBasedParse(lines): the branch that produces the result ("balance" when
\* balance tracking is valid and yields a transaction, else "keywords") and
\* the transactions
TextResult(lines, id0, env) == TextResultOf(EntriesFrom(lines, 1, env), id0)

textBasedParse(lines, id0, env) == TextResult(lines, id0, env).transactions

-----------------------------------------------------------------------------
(* pdfParser: parsePDF                                                     *)

\* items on one line differ in y by less than this
LineTolerance == 3

\* the items of a page that have text, with the text trimmed
PageItems(raw) ==
    LET Trimmed(kept) ==
            [k \in DOMAIN kept |-> [text |-> Trim(kept[k].str), x |-> kept[k].x, y |-> kept[k].y]]
    IN  Trimmed(SelectSeq(raw, LAMBDA item : Trim(item.str) # <<>>))

\* pageLines after the grouping loop has taken the items from item k on
RECURSIVE GroupByY(_, _, _)
GroupByY(pageLines, items, k) ==
    IF k > Len(items) THEN pageLines
    ELSE LET item == items[k]
             near == {i \in DOMAIN pageLines : Abs(pageLines[i].y - item.y) < LineTolerance}
             existing == CHOOSE i \in near : \A j \in near : i <= j
         IN  GroupByY(IF near # {}
                      THEN [pageLines EXCEPT ![existing].items = Append(@, item)]
                      ELSE Append(pageLines, [y |-> item.y, items |-> <<item>>]),
                      items, k + 1)

\* Array.prototype.sort (stable) of a list of pairs <<key, element>> by
\* ascending key: the elements in their new order
RECURSIVE InsertSorted(_, _)
InsertSorted(sorted, e) ==
    IF sorted = <<>> THEN <<e>>
    ELSE IF e[1] < Last(sorted)[1] THEN Append(InsertSorted(Front(sorted), e), Last(sorted))
    ELSE Append(sorted, e)

RECURSIVE SortPairs(_)
SortPairs(s) ==
    IF s = <<>> THEN <<>> ELSE InsertSorted(SortPairs(Front(s)), Last(s))

SortedByKey(pairs) == [i \in DOMAIN pairs |-> SortPairs(pairs)[i][2]]

\* the sort that leaves the lines of a page in the order of their creation
SortedItemsOnly(grouped) ==
    [i \in DOMAIN grouped |->
        [grouped[i] EXCEPT
            !.items = SortedByKey([k \in DOMAIN @ |-> <<@[k].x, @[k]>>])]]

\* pageLines.sort((a, b) => b.y - a.y) and, for each line,
\* line.items.sort((a, b) => a.x - b.x)
SortedPageLines(grouped) ==
    LET LeftToRight(ordered) ==
            [i \in DOMAIN ordered |->
                [ordered[i] EXCEPT
                    !.items = SortedByKey([k \in DOMAIN @ |-> <<@[k].x, @[k]>>])]]
    IN  LeftToRight(SortedByKey([i \in DOMAIN grouped |-> <<-grouped[i].y, grouped[i]>>]))

\* the lines of a page: grouped, top to bottom (b.y - a.y), each left to
\* right (a.x - b.x)
PageLinesOf(raw) ==
    LET LeftToRight(ordered) ==
            [i \in DOMAIN ordered |->
                [ordered[i] EXCEPT
                    !.items = SortedByKey([k \in DOMAIN @ |-> <<@[k].x, @[k]>>])]]
        TopToBottom(grouped) ==
            LeftToRight(SortedByKey([i \in DOMAIN grouped |-> <<-grouped[i].y, grouped[i]>>]))
    IN  TopToBottom(GroupByY(<<>>, PageItems(raw), 1))

\* what a page adds to fullText
RECURSIVE PageTextFrom(_, _)
PageTextFrom(lines, i) ==
    IF i > Len(lines) THEN <<"\n">>
    ELSE LineText(lines[i]) \o <<"\n">> \o PageTextFrom(lines, i + 1)

\* fewer transactions than this from the column strategy: the text strategy runs
FallbackBelow == 3

\* parsePDF keeping the list of the text strategy when the lists are equally long
StrategiesTextOnTie(allLines, id0, env) ==
    LET Validated(column, fallback, text, kept, chosen) ==
            [column |-> column, fallback |-> fallback, text |-> text, kept |-> kept,
             chosen |-> chosen, transactions |-> validateWithBalance(chosen)]
        Chosen(column, fallback, text, kept) ==
            Validated(column, fallback, text, kept,
                      IF kept = "text" THEN text ELSE column)
        Compared(column, fallback, text) ==
            Chosen(column, fallback, text,
                   IF fallback /\ Len(text) >= Len(column) THEN "text" ELSE "column")
        Fallback(column, fallback) ==
            Compared(column, fallback,
                     IF fallback THEN textBasedParse(allLines, id0 + Len(column), env)
                     ELSE <<>>)
        Column(column) == Fallback(column, Len(column) < FallbackBelow)
    IN  Column(columnBasedParse(allLines, id0, env))

\* what the text strategy returns when the column strategy returned column:
\* <<>> when it is not run
FallbackText(column, allLines, id0, env) ==
    IF Len(column) < FallbackBelow
    THEN textBasedParse(allLines, id0 + Len(column), env)
    ELSE <<>>

\* the lists of the two strategies compared, and validateWithBalance
Selected(column, text) ==
    LET fallback == Len(column) < FallbackBelow
        kept == IF fallback /\ Len(text) > Len(column) THEN "text" ELSE "column"
        chosen == IF kept = "text" THEN text ELSE column
    IN  [column |-> column, fallback |-> fallback, text |-> text, kept |-> kept,
         chosen |-> chosen, transactions |-> validateWithBalance(chosen)]

StrategiesAfter(column, allLines, id0, env) ==
    Selected(column, FallbackText(column, allLines, id0, env))

\* the strategies of parsePDF on allLines: the list each strategy returns
\* (that of the text strategy is <<>> when it is not run), the strategy whose
\* list is kept, and the list after validateWithBalance
Strategies(allLines, id0, env) ==
    StrategiesAfter(columnBasedParse(allLines, id0, env), allLines, id0, env)

-----------------------------------------------------------------------------
(* dateParser: detectDateOrder; csvParser: parseCSV; xlsParser: parseXLS   *)

\* /^(\d{1,2})[-/](\d{1,2})[-/](\d{2,4})$/
DateOrderPattern ==
    <<Atom(Digits, 1, 2), One(SepDashSlash), Atom(Digits, 1, 2), One(SepDashSlash),
      Atom(Digits, 2, 4)>>

\* what a day number adds to a score
DayScore == 5

\* detectDateOrder(dateStrings): the scores after the strings from k on
RECURSIVE DateOrderScores(_, _, _)
DateOrderScores(dateStrings, k, scores) ==
    IF k > Len(dateStrings) THEN scores
    ELSE LET Scored(a, b) ==
                 [dmy |-> scores.dmy + (IF a > 12 /\ a <= 31 THEN DayScore ELSE 0),
                  mdy |-> scores.mdy + (IF b > 12 /\ b <= 31 THEN DayScore ELSE 0)]
             Matched(ds, m) ==
                 IF ~m.ok THEN scores
                 ELSE Scored(ToNum(Group(ds, 1, m.lens, 1)), ToNum(Group(ds, 1, m.lens, 3)))
         IN  DateOrderScores(dateStrings, k + 1,
                Matched(dateStrings[k], FullMatch(DateOrderPattern, dateStrings[k])))

\* detectDateOrder answering MDY when the scores are equal
detectDateOrderMdyOnTie(dateStrings) ==
    LET Order(scores) == IF scores.mdy >= scores.dmy THEN "MDY" ELSE "DMY"
    IN  Order(DateOrderScores(dateStrings, 1, [dmy |-> 0, mdy |-> 0]))

detectDateOrder(dateStrings) ==
    LET Order(scores) == IF scores.mdy > scores.dmy THEN "MDY" ELSE "DMY"
    IN  Order(DateOrderScores(dateStrings, 1, [dmy |-> 0, mdy |-> 0]))

\* the rows whose dates parseCSV samples
DateSampleRows == 30

\* rows.slice(0, 30).map((r) => r[mapping.dateCol]).filter(Boolean)
SampleDates(rows, mapping) ==
    LET Strings(truthy) == [k \in DOMAIN truthy |-> truthy[k].s]
        Cells(first) == [k \in DOMAIN first |-> CellAt(first[k], mapping.dateCol)]
    IN  Strings(SelectSeq(Cells(SubSeq(rows, 1, Min(DateSampleRows, Len(rows)))),
                          LAMBDA c : c.t = "str" /\ c.s # <<>>))

\* the loop of parseCSV giving up at the first row that fails
RECURSIVE CsvRowsUntilFailure(_, _, _, _, _, _, _, _)
CsvRowsUntilFailure(transactions, headers, rows, k, mapping, dateOrder, id0, env) ==
    IF k > Len(rows) THEN transactions
    ELSE IF ~csvParseRow(headers, rows[k], mapping, dateOrder,
                         id0 + Len(transactions), env).ok
    THEN transactions
    ELSE CsvRowsUntilFailure(
             Append(transactions,
                    csvParseRow(headers, rows[k], mapping, dateOrder,
                                id0 + Len(transactions), env).txn),
             headers, rows, k + 1, mapping, dateOrder, id0, env)

\* the loop of parseCSV over the rows, from row k on: the transactions so far
RECURSIVE CsvRowsFrom(_, _, _, _, _, _, _, _)
CsvRowsFrom(transactions, headers, rows, k, mapping, dateOrder, id0, env) ==
    IF k > Len(rows) THEN transactions
    ELSE LET Pushed(txn) == IF txn.ok THEN Append(transactions, txn.txn) ELSE transactions
         IN  CsvRowsFrom(Pushed(csvParseRow(headers, rows[k], mapping, dateOrder,
                                            id0 + Len(transactions), env)),
                         headers, rows, k + 1, mapping, dateOrder, id0, env)

\* parseCSV going on to the rows whatever the mapping
parseCSVNoMappingCheck(file, id0) ==
    LET Rows(mapping, dateOrder) ==
            [status |-> "resolved", format |-> "csv",
             transactions |-> CsvRowsFrom(<<>>, file.headers, file.rows, 1, mapping,
                                          dateOrder, id0, file.env)]
        Mapped(mapping) == Rows(mapping, detectDateOrder(SampleDates(file.rows, mapping)))
    IN  IF ~file.readable
        THEN [status |-> "rejected", message |-> "read error"]
        ELSE IF file.rows = <<>>
        THEN [status |-> "rejected", message |-> "CSV file is empty or has no data rows."]
        ELSE Mapped(detectColumns(CSV_KEYWORDS, file.headers))

\* how the promise of parseCSV settles, but for parseDate of the statement
parseCSV(file, id0) ==
    LET Rows(mapping, dateOrder) ==
            [status |-> "resolved", format |-> "csv",
             transactions |-> CsvRowsFrom(<<>>, file.headers, file.rows, 1, mapping,
                                          dateOrder, id0, file.env)]
        Mapped(mapping) ==
            IF mapping.dateCol = 0
            THEN [status |-> "rejected", message |-> "Could not find a date column."]
            ELSE IF mapping.amountCol = 0 /\ mapping.debitCol = 0 /\ mapping.creditCol = 0
            THEN [status |-> "rejected",
                  message |-> "Could not find amount/debit/credit columns."]
            ELSE Rows(mapping, detectDateOrder(SampleDates(file.rows, mapping)))
    IN  IF ~file.readable
        THEN [status |-> "rejected", message |-> "read error"]
        ELSE IF file.rows = <<>>
        THEN [status |-> "rejected", message |-> "CSV file is empty or has no data rows."]
        ELSE Mapped(detectColumns(CSV_KEYWORDS, file.headers))

\* the loop of parseSheet over the rows, from row k on
RECURSIVE XlsRowsFrom(_, _, _, _, _, _, _)
XlsRowsFrom(transactions, headers, rows, k, mapping, id0, env) ==
    IF k > Len(rows) THEN transactions
    ELSE LET Pushed(txn) == IF txn.ok THEN Append(transactions, txn.txn) ELSE transactions
         IN  XlsRowsFrom(Pushed(xlsParseRow(headers, rows[k], mapping,
                                            id0 + Len(transactions), env)),
                         headers, rows, k + 1, mapping, id0, env)

\* parseSheet(ws).transactions; a sheet without rows has no headers
parseSheet(sheet, id0, env) ==
    LET Mapped(mapping) ==
            IF mapping.dateCol = 0
                \/ (mapping.amountCol = 0 /\ mapping.debitCol = 0 /\ mapping.creditCol = 0)
            THEN <<>>
            ELSE XlsRowsFrom(<<>>, sheet.headers, sheet.rows, 1, mapping, id0, env)
    IN  IF sheet.rows = <<>> THEN <<>>
        ELSE Mapped(detectColumns(XLS_KEYWORDS, sheet.headers))

\* the loop of parseXLS over the sheets, from sheet k on: best.transactions
\* and the identifiers used so far
RECURSIVE BestSheetFrom(_, _, _, _)
BestSheetFrom(acc, sheets, k, env) ==
    IF k > Len(sheets) THEN acc
    ELSE LET Better(transactions) ==
                 [best |-> IF Len(transactions) > Len(acc.best)
                           THEN transactions ELSE acc.best,
                  idNext |-> acc.idNext + Len(transactions)]
         IN  BestSheetFrom(Better(parseSheet(sheets[k], acc.idNext, env)),
                           sheets, k + 1, env)

\* how the promise of parseXLS settles, but for parseDate of the statement,
\* and the next identifier uuidv4() has not handed out
parseXLS(file, id0) ==
    LET Resolved(acc) ==
            [status |-> "resolved", format |-> file.format,
             transactions |-> acc.best, idNext |-> acc.idNext]
    IN  IF ~file.readable
        THEN [status |-> "rejected", message |-> "Failed to parse Excel file",
              idNext |-> id0]
        ELSE Resolved(BestSheetFrom([best |-> <<>>, idNext |-> id0], file.sheets, 1,
                                    file.env))

-----------------------------------------------------------------------------
(* Dates written out in the supported families, and other date strings     *)

Num2(n) == <<DigitSeq[((n \div 10) % 10) + 1], DigitSeq[(n % 10) + 1]>>
Num4(n) == Num2(n \div 100) \o Num2(n % 100)

MonthAbbr ==
    << <<"J", "a", "n">>, <<"F", "e", "b">>, <<"M", "a", "r">>, <<"A", "p", "r">>, <<"M", "a", "y">>, <<"J", "u", "n">>,
       <<"J", "u", "l">>, <<"A", "u", "g">>, <<"S", "e", "p">>, <<"O", "c", "t">>, <<"N", "o", "v">>, <<"D", "e", "c">> >>

Families == {"iso", "dMonY", "MonDY", "dmy4", "dmy2", "dotYmd", "dotDmy4",
             "dotDmy2", "compact"}

\* the date (y, m, d), m 1-based, written in a family
Serialize(fam, y, m, d) ==
    CASE fam = "iso" -> Num4(y) \o <<"-">> \o Num2(m) \o <<"-">> \o Num2(d)
      [] fam = "dMonY" ->
            Num2(d) \o <<"-">> \o MonthAbbr[((m + 11) % 12) + 1] \o <<"-">> \o Num4(y)
      [] fam = "MonDY" ->
            MonthAbbr[((m + 11) % 12) + 1] \o <<" ">> \o Num2(d) \o <<",", " ">> \o Num4(y)
      [] fam = "dmy4" -> Num2(d) \o <<"/">> \o Num2(m) \o <<"/">> \o Num4(y)
      [] fam = "dmy2" -> Num2(d) \o <<"/">> \o Num2(m) \o <<"/">> \o Num2(y)
      [] fam = "dotYmd" -> Num4(y) \o <<".">> \o Num2(m) \o <<".">> \o Num2(d)
      [] fam = "dotDmy4" -> Num2(d) \o <<".">> \o Num2(m) \o <<".">> \o Num4(y)
      [] fam = "dotDmy2" -> Num2(d) \o <<".">> \o Num2(m) \o <<".">> \o Num2(y)
      [] fam = "compact" -> Num4(y) \o Num2(m) \o Num2(d)

SampleYears == {1989, 1990, 2024, 2049, 2050, 2100, 2101}
SampleMonths == {0, 1, 2, 12, 13}
SampleDays == {0, 1, 29, 30, 31, 32}

SerializedDates ==
    {Serialize(f, y, m, d) :
        f \in Families, y \in SampleYears, m \in SampleMonths, d \in SampleDays}

\* strings with the noise parseDate removes, and strings that are no date
OtherDateStrings ==
    { <<>>, <<" ">>, <<"a", "b", "c">>, <<"R", "e", "n", "t", " ", "5">>, <<"1", "2", "3", "4", "5">>,
      <<"M", "o", "n", ",", " ", "1", "5", "/", "0", "1", "/", "2", "0", "2", "4">>, <<"M", "o", "n", "d", "a", "y", " ", "1", "5", " ", "J", "a", "n", " ", "2", "0", "2", "4">>,
      <<"1", "5", "/", "0", "1", "/", "2", "0", "2", "4", " ", "1", "0", ":", "3", "0">>, <<"2", "0", "2", "4", "-", "0", "1", "-", "1", "5", " ", "9", ":", "0", "5", ":", "3", "3", " ", "P", "M">>,
      <<"1", "s", "t", " ", "J", "a", "n", " ", "2", "0", "2", "4">>, <<"J", "a", "n", " ", "2", "n", "d", ",", " ", "2", "0", "2", "4">>, <<"F", "o", "o", " ", "1", "5", ",", " ", "2", "0", "2", "4">>, <<"J", "a", "n", " ", "1", "5", "2", "4">> }

DateInputs == SerializedDates \cup OtherDateStrings

\* what the Date constructor may make of a string: Invalid Date, or a date
NativeOutcomes == {NoDate, Date(2001, 4, 1), Date(1985, 0, 15), Date(2101, 0, 1)}

-----------------------------------------------------------------------------
(* Calls of parseDate                                                      *)

\* what the Date constructor of V8 makes of an ISO string whose day lies
\* beyond the end of its month: the day rolls over into the next month
\* (other engines answer Invalid Date)
NativeRolled(raw) ==
    {NewDate(y, m - 1, d) :
        y \in {yy \in SampleYears : \E mm \in SampleMonths, dd \in SampleDays :
                                        raw = Serialize("iso", yy, mm, dd)},
        m \in {mm \in SampleMonths \cap 1..12 : \E yy \in SampleYears, dd \in SampleDays :
                                        raw = Serialize("iso", yy, mm, dd)},
        d \in {dd \in SampleDays \cap 1..31 : \E yy \in SampleYears, mm \in SampleMonths :
                                        raw = Serialize("iso", yy, mm, dd)}}

InitDate ==
    /\ dRaw \in DateInputs
    /\ dNative \in NativeOutcomes \cup NativeRolled(dRaw)
    /\ dOut = NoDate
    /\ dPc = "call"
    /\ ValIdle /\ TabIdle /\ PdfIdle /\ FnIdle /\ EnvInit

\* const date = parseDate(rawDate)
ParseDateCall ==
    /\ dPc = "call"
    /\ dOut' = parseDate(dRaw, dNative)
    /\ dPc' = "done"
    /\ UNCHANGED <<dRaw, dNative>>
    /\ UNCHANGED <<valVars, envVars, tabVars, pdfVars, fnVars>>

\* the caller goes on to its next date string
ParseDateNext ==
    /\ dPc = "done"
    /\ dRaw' \in OtherDateStrings
    /\ dNative' \in NativeOutcomes
    /\ dOut' = NoDate
    /\ dPc' = "call"
    /\ UNCHANGED <<valVars, envVars, tabVars, pdfVars, fnVars>>

NextDate == ParseDateCall \/ ParseDateNext

SpecDate == InitDate /\ [][NextDate]_vars

-----------------------------------------------------------------------------
(* Calls of validateWithBalance on lists the strategies can return         *)

MaxTxns == 3

SampleMagnitudes == {30000, 50000}
SampleBalances == {NoNum, Num(100000), Num(100005), Num(100010), Num(130000)}

\* the i-th transaction of a list with the given type, magnitude and balance
SampleTxn(i, type, mag, bal) ==
    [id |-> i, date |-> Date(2024, 0, i), description |-> <<"T", "x", "n">>,
     amount |-> IF type = "expense" THEN -mag ELSE mag, category |-> "other",
     type |-> type, balance |-> bal, originalText |-> <<"T", "x", "n">>]

\* the lists of n sample transactions
SampleLists(n) ==
    { [i \in 1..n |-> SampleTxn(i, ty[i], mg[i], bl[i])] :
        ty \in [1..n -> {"income", "expense"}],
        mg \in [1..n -> SampleMagnitudes],
        bl \in [1..n -> SampleBalances] }

InitValidate ==
    /\ \E n \in 0..MaxTxns : vIn \in SampleLists(n)
    /\ vOut = <<>>
    /\ vPc = "call"
    /\ DateIdle /\ TabIdle /\ PdfIdle /\ FnIdle /\ EnvInit

\* transactions = validateWithBalance(transactions)
ValidateCall ==
    /\ vPc = "call"
    /\ vOut' = validateWithBalance(vIn)
    /\ vIn' = ArgumentAfterValidate(vIn)
    /\ vPc' = "done"
    /\ UNCHANGED <<dateVars, envVars, tabVars, pdfVars, fnVars>>

NextValidate == ValidateCall

SpecValidate == InitValidate /\ [][NextValidate]_vars

\* validateWithBalance called once more, on what it has returned
ValidateAgainCall ==
    /\ vPc = "done"
    /\ vOut' = validateWithBalance(vOut)
    /\ vIn' = ArgumentAfterValidate(vOut)
    /\ vPc' = "again"
    /\ UNCHANGED <<dateVars, envVars, tabVars, pdfVars, fnVars>>

NextValidateTwice == ValidateCall \/ ValidateAgainCall

SpecValidateTwice == InitValidate /\ [][NextValidateTwice]_vars

-----------------------------------------------------------------------------
(* Calls of parseCSV and parseXLS on sample tables                         *)

MaxRows == 2
MaxClock == 1

S(text) == StrCell(text)

HeadersFull == <<<<"D", "a", "t", "e">>, <<"N", "a", "r", "r", "a", "t", "i", "o", "n">>, <<"D", "e", "b", "i", "t">>, <<"C", "r", "e", "d", "i", "t">>, <<"B", "a", "l", "a", "n", "c", "e">>>>
HeadersAmount == <<<<"D", "a", "t", "e">>, <<"D", "e", "t", "a", "i", "l", "s">>, <<"A", "m", "o", "u", "n", "t">>, <<"T", "y", "p", "e">>>>
HeadersNoDate == <<<<"N", "a", "r", "r", "a", "t", "i", "o", "n">>, <<"D", "e", "b", "i", "t">>, <<"C", "r", "e", "d", "i", "t">>, <<"B", "a", "l", "a", "n", "c", "e">>>>
HeadersNoMoney == <<<<"D", "a", "t", "e">>, <<"N", "a", "r", "r", "a", "t", "i", "o", "n">>, <<"B", "a", "l", "a", "n", "c", "e">>>>

\* rows of string cells under HeadersFull: a credit, a debit, a date only the
\* engine's own parser may accept, a zero debit, a debit next to a credit
RowsFull ==
    { <<S(<<"0", "1", "-", "J", "a", "n", "-", "2", "0", "2", "4">>), S(<<"S", "a", "l", "a", "r", "y">>), S(<<>>), S(<<"5", "0", "0", "0", "0", ".", "0", "0">>), S(<<"5", "0", "0", "0", "0", ".", "0", "0">>)>>,
      <<S(<<"0", "2", "-", "J", "a", "n", "-", "2", "0", "2", "4">>), S(<<"R", "e", "n", "t">>), S(<<"1", "5", "0", "0", "0", ".", "0", "0">>), S(<<>>), S(<<"3", "5", "0", "0", "0", ".", "0", "0">>)>>,
      <<S(<<"1", " ", "2", "0", "2", "4">>), S(<<"U", "n", "d", "a", "t", "e", "d">>), S(<<"1", "0", ".", "0", "0">>), S(<<>>), S(<<"3", "4", "9", "9", "0", ".", "0", "0">>)>>,
      <<S(<<"0", "3", "-", "J", "a", "n", "-", "2", "0", "2", "4">>), S(<<"N", "o", "t", "h", "i", "n", "g">>), S(<<"0", ".", "0", "0">>), S(<<"-">>), S(<<"3", "5", "0", "0", "0", ".", "0", "0">>)>>,
      <<S(<<"0", "4", "/", "0", "1", "/", "2", "0", "2", "4">>), S(<<"B", "o", "t", "h">>), S(<<"(", "1", ",", "2", "0", "0", ".", "5", "0", ")">>), S(<<"3", "0", "0">>), S(<<>>)>> }

\* rows a spreadsheet can hold besides: numbers, a serial date, a zero balance
RowsFullNumeric ==
    { <<NumCell(45292000), S(<<"S", "a", "l", "a", "r", "y">>), S(<<>>), NumCell(50000000), NumCell(50000000)>>,
      <<NumCell(45293000), S(<<"R", "e", "n", "t">>), NumCell(-50000000), NumCell(0), NumCell(0)>> }

RowsAmount ==
    { <<S(<<"0", "5", "/", "0", "1", "/", "2", "0", "2", "4">>), S(<<"C", "o", "f", "f", "e", "e">>), S(<<"-", "4", ".", "5", "0">>), S(<<>>)>>,
      <<S(<<"0", "6", "/", "0", "1", "/", "2", "0", "2", "4">>), S(<<"R", "e", "f", "u", "n", "d">>), S(<<"-", "2", "0">>), S(<<"C", "R">>)>>,
      <<S(<<"0", "7", "/", "0", "1", "/", "2", "0", "2", "4">>), S(<<"F", "e", "e">>), S(<<"2", "0">>), S(<<"D", "e", "b", "i", "t">>)>>,
      <<S(<<"0", "8", "/", "0", "1", "/", "2", "0", "2", "4">>), S(<<"Z", "e", "r", "o">>), S(<<"0">>), S(<<>>)>> }

\* rows under HeadersAmount dated month first: a day in second place, and a
\* date that reads either way
RowsMonthFirst ==
    { <<S(<<"0", "1", "/", "1", "3", "/", "2", "0", "2", "4">>), S(<<"S", "h", "o", "p">>), S(<<"-", "1", "0">>), S(<<>>)>>,
      <<S(<<"0", "1", "/", "0", "2", "/", "2", "0", "2", "4">>), S(<<"T", "a", "x", "i">>), S(<<"-", "5">>), S(<<>>)>> }

\* a row under HeadersAmount whose description alone has 200 characters
RowsLong ==
    { <<S(<<"0", "9", "/", "0", "1", "/", "2", "0", "2", "4">>),
        S([i \in 1..OriginalTextLen |-> "x"]), S(<<"-", "7">>), S(<<>>)>> }

RowsNoDate == { <<S(<<"S", "a", "l", "a", "r", "y">>), S(<<>>), S(<<"1", "0", "0">>), S(<<"1", "0", "0">>)>> }
RowsNoMoney == { <<S(<<"0", "1", "-", "J", "a", "n", "-", "2", "0", "2", "4">>), S(<<"S", "a", "l", "a", "r", "y">>), S(<<"1", "0", "0">>)>> }

\* the environments: the engine's own date parser accepts nothing besides the
\* patterns, or it reads "1 2024" as 1 January 2024 and 01/13/2024 month first
SampleEnvs ==
    { <<>>,
      << <<<<"1", " ", "2", "0", "2", "4">>, Date(2024, 0, 1)>>,
         <<<<"0", "1", "/", "1", "3", "/", "2", "0", "2", "4">>, Date(2024, 0, 13)>> >> }

\* the lists of at most n elements of a set
ListsUpTo(set, n) == UNION { [1..k -> set] : k \in 0..n }

\* the tables of a format: headers with at most n rows of their shape
SampleTables(numeric, n) ==
    { [headers |-> HeadersFull, rows |-> rows] :
        rows \in ListsUpTo(RowsFull \cup (IF numeric THEN RowsFullNumeric ELSE {}), n) }
    \cup { [headers |-> HeadersAmount, rows |-> rows] : rows \in ListsUpTo(RowsAmount, n) }
    \cup { [headers |-> HeadersAmount, rows |-> rows] : rows \in ListsUpTo(RowsMonthFirst, n) }
    \cup { [headers |-> HeadersAmount, rows |-> rows] : rows \in ListsUpTo(RowsLong, 1) }
    \cup { [headers |-> HeadersNoDate, rows |-> rows] : rows \in ListsUpTo(RowsNoDate, 1) }
    \cup { [headers |-> HeadersNoMoney, rows |-> rows] : rows \in ListsUpTo(RowsNoMoney, 1) }

\* the sheets a workbook may have after its first one
OtherSheets ==
    { [headers |-> HeadersNoDate, rows |-> << <<S(<<"S", "a", "l", "a", "r", "y">>), S(<<>>), S(<<"1", "0", "0">>), S(<<"1", "0", "0">>)>> >>],
      [headers |-> HeadersAmount,
       rows |-> << <<S(<<"0", "5", "/", "0", "1", "/", "2", "0", "2", "4">>), S(<<"C", "o", "f", "f", "e", "e">>), S(<<"-", "4", ".", "5", "0">>), S(<<>>)>> >>] }

\* a file that cannot be read has no table the parser gets to see
SampleFiles(n) ==
    { [format |-> "csv", readable |-> TRUE, headers |-> t.headers, rows |-> t.rows,
       env |-> e] : t \in SampleTables(FALSE, n), e \in SampleEnvs }
    \cup { [format |-> f, readable |-> TRUE, sheets |-> <<t>> \o more, env |-> e] :
             f \in {"xls", "xlsx"}, t \in SampleTables(TRUE, n),
             more \in ListsUpTo(OtherSheets, 1), e \in SampleEnvs }
    \cup { [format |-> "csv", readable |-> FALSE, headers |-> <<>>, rows |-> <<>>,
             env |-> <<>>],
           [format |-> "xlsx", readable |-> FALSE, sheets |-> <<>>, env |-> <<>>] }

InitTab ==
    /\ tFile \in SampleFiles(MaxRows)
    /\ tOut = [status |-> "pending"]
    /\ tPc = "call"
    /\ DateIdle /\ ValIdle /\ PdfIdle /\ FnIdle /\ EnvInit

\* the statement a parser returns: its result stamped with `new Date()`
Stamped(result, now) ==
    IF result.status = "resolved"
    THEN [status |-> "resolved", format |-> result.format,
          transactions |-> result.transactions, parseDate |-> now]
    ELSE result

\* the identifiers a call that returned these transactions has used
IdsUsed(result) == IF result.status = "resolved" THEN Len(result.transactions) ELSE 0

\* parseCSV(file)
ParseCSVCall ==
    /\ tPc = "call"
    /\ tFile.format = "csv"
    /\ \E result \in {parseCSV(tFile, uuidNext)} :
           /\ \E now \in clock..MaxClock :
                 tOut' = Stamped(result, now) /\ clock' = now
           /\ uuidNext' = uuidNext + IdsUsed(result)
    /\ tPc' = "done"
    /\ UNCHANGED <<tFile, dateVars, valVars, pdfVars, fnVars>>

\* parseXLS(file)
ParseXLSCall ==
    /\ tPc = "call"
    /\ tFile.format \in {"xls", "xlsx"}
    /\ \E result \in {parseXLS(tFile, uuidNext)} :
           /\ \E now \in clock..MaxClock :
                 tOut' = Stamped(result, now) /\ clock' = now
           /\ uuidNext' = result.idNext
    /\ tPc' = "done"
    /\ UNCHANGED <<tFile, dateVars, valVars, pdfVars, fnVars>>

NextTab == ParseCSVCall \/ ParseXLSCall

SpecTab == InitTab /\ [][NextTab]_vars

-----------------------------------------------------------------------------
(* Invocations of parsePDF on sample documents.  An invocation gives way to *)
(* the others where parsePDF awaits: while the document is opened and while *)
(* a page and its text are fetched.  From the text of the last page to the  *)
(* return statement it runs without a break.                                *)

MaxLines == 3
LinesPerPage == 2

\* an item of a line: its text and its horizontal position
I(str, x) == [str |-> str, x |-> x]

LineHeaderDebitCredit ==
    <<I(<<"D", "a", "t", "e">>, 50), I(<<"D", "e", "s", "c", "r", "i", "p", "t", "i", "o", "n">>, 120), I(<<"D", "e", "b", "i", "t">>, 300), I(<<"C", "r", "e", "d", "i", "t">>, 380),
      I(<<"B", "a", "l", "a", "n", "c", "e">>, 460)>>
LineHeaderAmountType ==
    <<I(<<"D", "a", "t", "e">>, 50), I(<<"D", "e", "t", "a", "i", "l", "s">>, 120), I(<<"A", "m", "o", "u", "n", "t">>, 300), I(<<"T", "y", "p", "e">>, 380)>>

\* rows under the debit / credit header: a credit, a debit, a debit whose
\* amount disagrees with the balances, a continuation line, a page footer,
\* a row whose numbers lie beyond every column
LineSalary ==
    <<I(<<"0", "1", "/", "0", "1", "/", "2", "0", "2", "4">>, 50), I(<<"S", "a", "l", "a", "r", "y">>, 120), I(<<"1", ",", "0", "0", "0", ".", "0", "0">>, 380), I(<<"1", ",", "0", "0", "0", ".", "0", "0">>, 460)>>
LineAtm ==
    <<I(<<"0", "2", "/", "0", "1", "/", "2", "0", "2", "4">>, 50), I(<<"A", "T", "M">>, 120), I(<<"1", "0", "0", ".", "0", "0">>, 300), I(<<"9", "0", "0", ".", "0", "0">>, 460)>>
LineAtmAgain ==
    <<I(<<"0", "2", "/", "0", "1", "/", "2", "0", "2", "4">>, 50), I(<<"A", "T", "M">>, 120), I(<<"2", "0", "0", ".", "0", "0">>, 300), I(<<"8", "0", "0", ".", "0", "0">>, 460)>>
LineContinuation == <<I(<<"U", "P", "I", " ", "r", "e", "f", " ", "2", "0", "2", "4">>, 120)>>
LineFooter == <<I(<<"P", "a", "g", "e", " ", "1", " ", "o", "f", " ", "2">>, 50)>>
LineFarNumbers ==
    <<I(<<"0", "4", "/", "0", "1", "/", "2", "0", "2", "4">>, 50), I(<<"M", "i", "s", "c", " ", "p", "a", "i", "d">>, 120), I(<<"1", "5", "0", ".", "0", "0">>, 620), I(<<"7", "5", "0", ".", "0", "0">>, 700)>>

\* rows under the amount / type header: typed as debit, typed as credit with
\* a negative amount, without a type
LineCoffee ==
    <<I(<<"0", "5", "/", "0", "1", "/", "2", "0", "2", "4">>, 50), I(<<"C", "o", "f", "f", "e", "e">>, 120), I(<<"4", ".", "5", "0">>, 300), I(<<"D", "R">>, 380)>>
LineRefund ==
    <<I(<<"0", "6", "/", "0", "1", "/", "2", "0", "2", "4">>, 50), I(<<"R", "e", "f", "u", "n", "d">>, 120), I(<<"-", "2", "0", ".", "0", "0">>, 300), I(<<"C", "R">>, 380)>>
LineGift ==
    <<I(<<"0", "7", "/", "0", "1", "/", "2", "0", "2", "4">>, 50), I(<<"G", "i", "f", "t", " ", "r", "e", "c", "e", "i", "v", "e", "d">>, 120), I(<<"1", "5", ".", "0", "0">>, 300)>>

\* the documents: an optional header line and at most n lines that go with it
SampleLineLists(n) ==
    { <<LineHeaderDebitCredit>> \o body :
        body \in ListsUpTo({LineSalary, LineAtm, LineAtmAgain, LineContinuation,
                            LineFooter, LineFarNumbers}, n) }
    \cup { <<LineHeaderAmountType>> \o body :
        body \in ListsUpTo({LineCoffee, LineRefund, LineGift, LineContinuation}, n) }
    \cup ListsUpTo({LineSalary, LineAtm, LineAtmAgain, LineFarNumbers, LineGift}, n)

\* the vertical position of line k of a page, and the page holding lines
\* first..last of a document, in reading order
LineY(k) == 700 - 20 * k

PageOf(lineList, first, last) ==
    LET Flat[k \in first..(last + 1)] ==
            IF k > last THEN <<>>
            ELSE [i \in DOMAIN lineList[k] |->
                    [str |-> lineList[k][i].str, x |-> lineList[k][i].x,
                     y |-> LineY(k - first)]] \o Flat[k + 1]
    IN  Flat[first]

PagesOf(lineList) ==
    [p \in 1..((Len(lineList) + LinesPerPage - 1) \div LinesPerPage) |->
        PageOf(lineList, (p - 1) * LinesPerPage + 1, Min(p * LinesPerPage, Len(lineList)))]

\* the engine's own date parser accepts nothing besides the patterns, or it
\* reads the continuation line as a date
PdfEnvs(lineList) ==
    {<<>>} \cup (IF \E k \in DOMAIN lineList : lineList[k] = LineContinuation
                 THEN { << <<<<"U", "P", "I", " ", "r", "e", "f", " ", "2", "0", "2", "4">>, Date(2024, 0, 1)>> >> }
                 ELSE {})

SampleDocs(n) ==
    UNION { { [readable |-> TRUE, pages |-> PagesOf(l), env |-> e] : e \in PdfEnvs(l) } :
              l \in SampleLineLists(n) }

\* allLines once the pages 1..n of a document are read
RECURSIVE AllLinesUpTo(_, _)
AllLinesUpTo(pages, n) ==
    IF n = 0 THEN <<>> ELSE AllLinesUpTo(pages, n - 1) \o PageLinesOf(pages[n])

\* an invocation that has not started: parsePDF(file) is about to be called
Called(file) == [pc |-> "idle", file |-> file]

\* one invocation, on any sample document or on a file that is no PDF
InitPdf ==
    /\ \E file \in SampleDocs(MaxLines) \cup {[readable |-> FALSE]} :
          pRuns = <<Called(file), NoRun, NoRun>>
    /\ DateIdle /\ ValIdle /\ TabIdle /\ FnIdle /\ EnvInit

\* pdfjsLib.getDocument(...).promise resolves
OpenDocument(r) ==
    /\ pRuns[r].pc = "idle"
    /\ pRuns[r].file.readable
    /\ pRuns' = [pRuns EXCEPT ![r] =
                    [pc |-> "loading", file |-> pRuns[r].file, page |-> 0,
                     allLines |-> <<>>, fullText |-> <<>>]]
    /\ UNCHANGED <<dateVars, valVars, envVars, tabVars, fnVars>>

\* pdfjsLib.getDocument(...).promise rejects: the catch block throws
RejectDocument(r) ==
    /\ pRuns[r].pc = "idle"
    /\ ~pRuns[r].file.readable
    /\ pRuns' = [pRuns EXCEPT ![r] =
                    [pc |-> "done", file |-> pRuns[r].file,
                     out |-> [status |-> "rejected",
                              message |-> "Failed to parse PDF file"]]]
    /\ UNCHANGED <<dateVars, valVars, envVars, tabVars, fnVars>>

\* the local variables once the lines of page n are added
WithPageLines(run, n, pageLines) ==
    [run EXCEPT !.page = n,
                !.allLines = @ \o pageLines,
                !.fullText = @ \o PageTextFrom(pageLines, 1)]

\* the local variables once the text of page n has been taken in
WithPage(run, n) == WithPageLines(run, n, PageLinesOf(run.file.pages[n]))

\* the text of a page that is not the last arrives: its lines are added and
\* the next page is asked for
ReadPage(r) ==
    /\ pRuns[r].pc = "loading"
    /\ pRuns[r].page + 1 < Len(pRuns[r].file.pages)
    /\ pRuns' = [pRuns EXCEPT ![r] = WithPage(@, @.page + 1)]
    /\ UNCHANGED <<dateVars, valVars, envVars, tabVars, fnVars>>

\* the text of the last page arrives (or there is no page): both strategies,
\* validateWithBalance and the return statement
ExtractTransactions(r) ==
    /\ pRuns[r].pc = "loading"
    /\ pRuns[r].page + 1 >= Len(pRuns[r].file.pages)
    /\ \E run \in {IF pRuns[r].page < Len(pRuns[r].file.pages)
                    THEN WithPage(pRuns[r], pRuns[r].page + 1)
                    ELSE pRuns[r]} :
       \E strategies \in {Strategies(run.allLines, uuidNext, run.file.env)} :
          /\ \E now \in clock..MaxClock :
                /\ pRuns' = [pRuns EXCEPT ![r] =
                       [pc |-> "done", file |-> run.file,
                        allLines |-> run.allLines, strategies |-> strategies,
                        out |-> [status |-> "resolved", format |-> "pdf",
                                 transactions |-> strategies.transactions,
                                 parseDate |-> now, rawText |-> run.fullText]]]
                /\ clock' = now
          /\ uuidNext' = uuidNext + Len(strategies.column) + Len(strategies.text)
    /\ UNCHANGED <<dateVars, valVars, tabVars, fnVars>>

NextPdf ==
    \E r \in Runs : OpenDocument(r) \/ RejectDocument(r) \/ ReadPage(r) \/ ExtractTransactions(r)

SpecPdf == InitPdf /\ [][NextPdf]_vars

\* a call of any of the three parsers
SpecParsers == (InitTab \/ InitPdf) /\ [][NextTab \/ NextPdf]_vars

\* two invocations of parsePDF on the same document, and a third one on any
\* document or none, in any interleaving
RunDocs ==
    { [readable |-> TRUE, pages |-> PagesOf(l), env |-> <<>>] :
        l \in { <<LineHeaderDebitCredit, LineSalary, LineAtm, LineAtmAgain>>,
                <<LineGift, LineFarNumbers>>,
                <<LineHeaderAmountType, LineCoffee, LineRefund>> } }

InitPdfRuns ==
    /\ \E file \in RunDocs, other \in {NoRun} \cup {Called(f) : f \in RunDocs \cup {[readable |-> FALSE]}} :
          pRuns = <<Called(file), Called(file), other>>
    /\ DateIdle /\ ValIdle /\ TabIdle /\ FnIdle /\ EnvInit

SpecPdfRuns == InitPdfRuns /\ [][NextPdf]_vars

-----------------------------------------------------------------------------
(* Calls of detectDateOrder                                                *)

\* the longest batch of date strings
MaxSamples == 3

\* date strings of the bare shape (a day first, a day second, no day, a first
\* group and a second group that are no day) and of other shapes
SampleDateStrings ==
    { <<"2", "5", "/", "0", "1", "/", "2", "0", "2", "4">>,
      <<"0", "1", "/", "1", "3", "/", "2", "0", "2", "4">>,
      <<"0", "5", "-", "0", "6", "-", "2", "4">>,
      <<"4", "5", "/", "0", "1", "/", "2", "0", "2", "4">>,
      <<"0", "1", "/", "3", "2", "/", "2", "0", "2", "4">>,
      <<"2", "0", "2", "4", "-", "0", "1", "-", "1", "5">>,
      <<"1", "5", " ", "J", "a", "n", " ", "2", "0", "2", "4">> }

InitOrder ==
    /\ fIn \in {[fn |-> "detectDateOrder", dateStrings |-> l] :
                    l \in ListsUpTo(SampleDateStrings, MaxSamples)}
    /\ fOut = [ok |-> FALSE]
    /\ fPc = "call"
    /\ DateIdle /\ ValIdle /\ TabIdle /\ PdfIdle /\ EnvInit

\* const dateOrder = detectDateOrder(sampleDates); the scores are its locals
\* dmyScore and mdyScore at the return statement
DetectDateOrderCall ==
    /\ fPc = "call"
    /\ fIn.fn = "detectDateOrder"
    /\ fOut' = [ok |-> TRUE,
                scores |-> DateOrderScores(fIn.dateStrings, 1, [dmy |-> 0, mdy |-> 0]),
                order |-> detectDateOrder(fIn.dateStrings)]
    /\ fPc' = "done"
    /\ UNCHANGED <<fIn, dateVars, valVars, envVars, tabVars, pdfVars>>

NextOrder == DetectDateOrderCall

SpecOrder == InitOrder /\ [][NextOrder]_vars

-----------------------------------------------------------------------------
(* The amount normalisers as functions of one cell, under SpecAmount        *)

\* texts of an amount cell: empty and dashes, no number, zero in several
\* spellings, signs and parentheses, commas and dots in every arrangement
SampleAmountTexts ==
    { <<>>,
      <<"-">>,
      <<"-", "-">>,
      <<" ">>,
      <<"a", "b", "c">>,
      <<"n", "u", "l", "l">>,
      <<"0">>,
      <<"0", ".", "0", "0">>,
      <<"0", ",", "0", "0">>,
      <<"-", "0">>,
      <<"(", "0", ")">>,
      <<"5">>,
      <<"-", "5">>,
      <<"-", "-", "5">>,
      <<"(", "5", ")">>,
      <<"(", "-", "5", ")">>,
      <<"5", "-">>,
      <<",", "5">>,
      <<",", "5", "0">>,
      <<"1", ",", "5">>,
      <<"1", ",", "5", "0">>,
      <<"1", ",", "2", "3", "4">>,
      <<"1", ",", "2", "3", "4", ".", "5">>,
      <<"1", "2", ".", "5">>,
      <<"1", ".", "2", "3", "4", ",", "5", "6">>,
      <<"(", "1", ",", "2", "3", "4", ".", "5", "6", ")">>,
      <<"-", "1", ".", "2", "3", "4", ",", "5", "6">>,
      <<"$", " ", "1", "2", ".", "5", "0">>,
      <<"1", ",", "0", "0", ",", "0", "0", "0", ".", "0", "0">>,
      <<"1", ".", "2", ".", "3">>,
      <<"R", "s", " ", "5">>,
      <<"-", "$", "5">>,
      <<"1", ",", "2", "3", "4", ",", "5", "6">>,
      <<"1", ".", "5", ",", "2", "5">>,
      <<"1", "2", ",", "x">> }

\* a cell of a spreadsheet holds a text, a number (in thousandths) or nothing
SampleAmountCells ==
    {StrCell(t) : t \in SampleAmountTexts}
        \cup {NumCell(v) : v \in {0, 5000, -12500}} \cup {NoCell}

InitAmount ==
    /\ fIn \in {[fn |-> "parseAmount", raw |-> StrCell(t)] : t \in SampleAmountTexts}
               \cup {[fn |-> "csvCleanAmount", raw |-> c] :
                        c \in {x \in SampleAmountCells : x.t # "num"}}
               \cup {[fn |-> "xlsCleanAmount", raw |-> c] : c \in SampleAmountCells}
    /\ fOut = [ok |-> FALSE]
    /\ fPc = "call"
    /\ DateIdle /\ ValIdle /\ TabIdle /\ PdfIdle /\ EnvInit

\* pdfParser: parseAmount(item.text)
ParseAmountCall ==
    /\ fPc = "call"
    /\ fIn.fn = "parseAmount"
    /\ fOut' = [ok |-> TRUE, amount |-> parseAmount(fIn.raw.s)]
    /\ fPc' = "done"
    /\ UNCHANGED <<fIn, dateVars, valVars, envVars, tabVars, pdfVars>>

\* csvParser: cleanAmount(row[mapping.amount])
CsvCleanAmountCall ==
    /\ fPc = "call"
    /\ fIn.fn = "csvCleanAmount"
    /\ fOut' = [ok |-> TRUE, amount |-> csvCleanAmount(fIn.raw)]
    /\ fPc' = "done"
    /\ UNCHANGED <<fIn, dateVars, valVars, envVars, tabVars, pdfVars>>

\* xlsParser: cleanAmount(row[mapping.amount])
XlsCleanAmountCall ==
    /\ fPc = "call"
    /\ fIn.fn = "xlsCleanAmount"
    /\ fOut' = [ok |-> TRUE, amount |-> xlsCleanAmount(fIn.raw)]
    /\ fPc' = "done"
    /\ UNCHANGED <<fIn, dateVars, valVars, envVars, tabVars, pdfVars>>

NextAmount == ParseAmountCall \/ CsvCleanAmountCall \/ XlsCleanAmountCall

SpecAmount == InitAmount /\ [][NextAmount]_vars

-----------------------------------------------------------------------------
(* currencyDetector: CURRENCY_DB and detectCurrencyFromText                 *)

\* the symbols of the class [₹€£¥₺₽₩₪₦₱₫৳฿] of the weight test that the texts
\* of the model use, each one character; the class holds no dollar sign
SymbolClass == {"RUPEE", "EURO"}

\* a pattern of an entry: the source of its regular expression, and the
\* expression as new RegExp(pattern.source, "gi") matches it, in lower case
Pattern(source, re) == [source |-> source, re |-> re]

\* the entries of the catalogue, in its order, that a text of the model can
\* match: INR, USD, EUR and AUD
CURRENCY_DB ==
    << [code |-> "INR",
        patterns |->
            << Pattern(<<"RUPEE">>,
                      Lit(<<"RUPEE">>)),
               Pattern(<<"\\", "b", "I", "N", "R", "\\", "b">>,
                      <<WordBoundary>> \o Lit(<<"i", "n", "r">>) \o <<WordBoundary>>),
               Pattern(<<"\\", "b", "R", "s", "\\", ".", "?", "\\", "s">>,
                      <<WordBoundary>> \o Lit(<<"r", "s">>) \o <<Opt({"."}), One(Spaces)>>),
               Pattern(<<"\\", "b", "R", "u", "p", "e", "e", "s", "?", "\\", "b">>,
                      <<WordBoundary>> \o Lit(<<"r", "u", "p", "e", "e">>) \o <<Opt({"s"}), WordBoundary>>) >>],
       [code |-> "USD",
        patterns |->
            << Pattern(<<"\\", "$">>,
                      Lit(<<"$">>)),
               Pattern(<<"\\", "b", "U", "S", "D", "\\", "b">>,
                      <<WordBoundary>> \o Lit(<<"u", "s", "d">>) \o <<WordBoundary>>),
               Pattern(<<"\\", "b", "U", "S", "\\", "s", "?", "D", "o", "l", "l", "a", "r">>,
                      <<WordBoundary>> \o Lit(<<"u", "s">>) \o <<Opt(Spaces)>> \o Lit(<<"d", "o", "l", "l", "a", "r">>)) >>],
       [code |-> "EUR",
        patterns |->
            << Pattern(<<"EURO">>,
                      Lit(<<"EURO">>)),
               Pattern(<<"\\", "b", "E", "U", "R", "\\", "b">>,
                      <<WordBoundary>> \o Lit(<<"e", "u", "r">>) \o <<WordBoundary>>),
               Pattern(<<"\\", "b", "E", "u", "r", "o", "\\", "b">>,
                      <<WordBoundary>> \o Lit(<<"e", "u", "r", "o">>) \o <<WordBoundary>>) >>],
       [code |-> "AUD",
        patterns |->
            << Pattern(<<"A", "\\", "$">>,
                      Lit(<<"a", "$">>)),
               Pattern(<<"\\", "b", "A", "U", "D", "\\", "b">>,
                      <<WordBoundary>> \o Lit(<<"a", "u", "d">>) \o <<WordBoundary>>) >>] >>

\* /[₹€£¥₺₽₩₪₦₱₫৳฿]/.test(pattern.source)
isSymbol(source) == \E i \in DOMAIN source : source[i] \in SymbolClass

\* /\\b[A-Z]{3}\\b/.test(pattern.source)
isCode(source) ==
    \E p \in 1..(Len(source) - 6) :
        /\ SubSeq(source, p, p + 1) = <<"\\", "b">>
        /\ \A i \in (p + 2)..(p + 4) : source[i] \in Range(UpperSeq)
        /\ SubSeq(source, p + 5, p + 6) = <<"\\", "b">>

\* const weight = isSymbol ? 3 : isCode ? 2 : 1
PatternWeight(source) ==
    IF isSymbol(source) THEN 3 ELSE IF isCode(source) THEN 2 ELSE 1

\* sample.match(re) with the flag g: the matches from position p on, each
\* search resuming where the last match ended
RECURSIVE MatchCount(_, _, _)
MatchCount(re, s, p) ==
    IF p > Len(s) THEN 0
    ELSE IF EndOf(re, 1, s, p) = 0 THEN MatchCount(re, s, p + 1)
    ELSE 1 + MatchCount(re, s, IF EndOf(re, 1, s, p) = p THEN p + 1
                               ELSE EndOf(re, 1, s, p))

\* the score of an entry: matches.length * weight over its patterns k..
RECURSIVE ScoreFrom(_, _, _)
ScoreFrom(patterns, sample, k) ==
    IF k > Len(patterns) THEN 0
    ELSE MatchCount(patterns[k].re, ToLower(sample), 1)
             * PatternWeight(patterns[k].source)
         + ScoreFrom(patterns, sample, k + 1)

CurrencyScore(curr, sample) == ScoreFrom(curr.patterns, sample, 1)

NoCurrency == [ok |-> FALSE]

\* the loop over CURRENCY_DB from entry i on: if (score > bestScore)
RECURSIVE BestCurrency(_, _, _, _)
BestCurrency(sample, i, bestMatch, bestScore) ==
    IF i > Len(CURRENCY_DB) THEN [match |-> bestMatch, score |-> bestScore]
    ELSE IF CurrencyScore(CURRENCY_DB[i], sample) > bestScore
    THEN BestCurrency(sample, i + 1, i, CurrencyScore(CURRENCY_DB[i], sample))
    ELSE BestCurrency(sample, i + 1, bestMatch, bestScore)

\* the loop with score >= bestScore: the last of the equal entries is kept
RECURSIVE BestCurrencyLastOnTie(_, _, _, _)
BestCurrencyLastOnTie(sample, i, bestMatch, bestScore) ==
    IF i > Len(CURRENCY_DB) THEN [match |-> bestMatch, score |-> bestScore]
    ELSE IF CurrencyScore(CURRENCY_DB[i], sample) >= bestScore
    THEN BestCurrencyLastOnTie(sample, i + 1, i, CurrencyScore(CURRENCY_DB[i], sample))
    ELSE BestCurrencyLastOnTie(sample, i + 1, bestMatch, bestScore)

\* bestMatch && bestScore >= 1 ? { code, ... } : null
CurrencyOf(best) ==
    IF best.match # 0 /\ best.score >= 1
    THEN [ok |-> TRUE, code |-> CURRENCY_DB[best.match].code]
    ELSE NoCurrency

detectCurrencyLastOnTie(text) ==
    IF text = <<>> THEN NoCurrency
    ELSE CurrencyOf(BestCurrencyLastOnTie(text, 1, 0, 0))

\* detectCurrencyFromText(text), for a text of at most 7000 characters (the
\* sample is the text)
detectCurrencyFromText(text) ==
    IF text = <<>> THEN NoCurrency
    ELSE CurrencyOf(BestCurrency(text, 1, 0, 0))

\* the longest text, in words
MaxWords == 3

\* the words of a text: symbols, codes in both cases, descriptive words, and a
\* word no entry knows
SampleWords ==
    { <<"RUPEE">>,
      <<"$">>,
      <<"EURO">>,
      <<"I", "N", "R">>,
      <<"u", "s", "d">>,
      <<"E", "U", "R">>,
      <<"R", "s", ".">>,
      <<"E", "u", "r", "o">>,
      <<"A", "$">>,
      <<"p", "a", "i", "d">> }

InitCurrency ==
    /\ fIn \in {[fn |-> "detectCurrencyFromText", text |-> JoinWith(l, <<" ">>)] :
                    l \in ListsUpTo(SampleWords, MaxWords)}
    /\ fOut = [ok |-> FALSE]
    /\ fPc = "call"
    /\ DateIdle /\ ValIdle /\ TabIdle /\ PdfIdle /\ EnvInit

\* detectCurrencyFromText(fullText); the scores are the values of the local
\* score at the end of each round of the loop
DetectCurrencyCall ==
    /\ fPc = "call"
    /\ fIn.fn = "detectCurrencyFromText"
    /\ fOut' = [ok |-> TRUE,
                scores |-> [i \in DOMAIN CURRENCY_DB |->
                               CurrencyScore(CURRENCY_DB[i], fIn.text)],
                currency |-> detectCurrencyFromText(fIn.text)]
    /\ fPc' = "done"
    /\ UNCHANGED <<fIn, dateVars, valVars, envVars, tabVars, pdfVars>>

NextCurrency == DetectCurrencyCall

SpecCurrency == InitCurrency /\ [][NextCurrency]_vars

-----------------------------------------------------------------------------
(* The column mappers as functions of the headers, under SpecColumns        *)

\* the longest header row
MaxHeaders == 3

\* header texts: one per role, one that names two roles, one that names none,
\* one that only the delimited-text parser knows
SampleHeaders ==
    { <<"D", "a", "t", "e">>,
      <<"D", "e", "t", "a", "i", "l", "s">>,
      <<"A", "m", "o", "u", "n", "t">>,
      <<"D", "e", "b", "i", "t", " ", "A", "m", "o", "u", "n", "t">>,
      <<"S", "p", "e", "n", "t">>,
      <<"C", "r", "e", "d", "i", "t">>,
      <<"B", "a", "l", "a", "n", "c", "e">>,
      <<"R", "e", "f", " ", "N", "o">>,
      <<"T", "x", "n", " ", "T", "y", "p", "e">> }

\* header rows without a repeated header
HeaderRows ==
    {l \in ListsUpTo(SampleHeaders, MaxHeaders) :
        \A i, j \in DOMAIN l : l[i] = l[j] => i = j}

InitColumns ==
    /\ fIn \in {[fn |-> "csvDetectColumns", headers |-> l] : l \in HeaderRows}
               \cup {[fn |-> "xlsDetectColumns", headers |-> l] : l \in HeaderRows}
               \cup {[fn |-> "classifyHeaderItem", headers |-> <<h>>] : h \in SampleHeaders}
    /\ fOut = [ok |-> FALSE]
    /\ fPc = "call"
    /\ DateIdle /\ ValIdle /\ TabIdle /\ PdfIdle /\ EnvInit

\* csvParser: const mapping = detectColumns(headers)
CsvDetectColumnsCall ==
    /\ fPc = "call"
    /\ fIn.fn = "csvDetectColumns"
    /\ fOut' = [ok |-> TRUE, mapping |-> detectColumns(CSV_KEYWORDS, fIn.headers)]
    /\ fPc' = "done"
    /\ UNCHANGED <<fIn, dateVars, valVars, envVars, tabVars, pdfVars>>

\* xlsParser: const mapping = detectColumns(headers)
XlsDetectColumnsCall ==
    /\ fPc = "call"
    /\ fIn.fn = "xlsDetectColumns"
    /\ fOut' = [ok |-> TRUE, mapping |-> detectColumns(XLS_KEYWORDS, fIn.headers)]
    /\ fPc' = "done"
    /\ UNCHANGED <<fIn, dateVars, valVars, envVars, tabVars, pdfVars>>

\* pdfParser: const type = classifyHeaderItem(item.text)
ClassifyHeaderItemCall ==
    /\ fPc = "call"
    /\ fIn.fn = "classifyHeaderItem"
    /\ fOut' = [ok |-> TRUE, type |-> classifyHeaderItem(fIn.headers[1])]
    /\ fPc' = "done"
    /\ UNCHANGED <<fIn, dateVars, valVars, envVars, tabVars, pdfVars>>

NextColumns == CsvDetectColumnsCall \/ XlsDetectColumnsCall \/ ClassifyHeaderItemCall

SpecColumns == InitColumns /\ [][NextColumns]_vars

-----------------------------------------------------------------------------
(* columnBasedParse line by line, under SpecScan: findHeaderRow, then one  *)
(* step per line after the header, then the last finalizeTxn               *)

\* the most lines after the header row
MaxScanLines == 3

\* a header row with a debit, a credit and an amount column, and a line that
\* names a date and no money column
LineHeaderAll ==
    <<I(<<"D", "a", "t", "e">>, 50), I(<<"D", "e", "s", "c", "r", "i", "p", "t", "i", "o", "n">>, 120), I(<<"D", "e", "b", "i", "t">>, 300), I(<<"C", "r", "e", "d", "i", "t">>, 380), I(<<"A", "m", "o", "u", "n", "t">>, 460)>>
LineHeaderNoMoney == <<I(<<"D", "a", "t", "e">>, 50), I(<<"D", "e", "s", "c", "r", "i", "p", "t", "i", "o", "n">>, 120)>>

\* continuation lines with a number under the debit column, and a dated line
\* whose only number is under the amount column
LineFeeBelow == <<I(<<"F", "e", "e">>, 120), I(<<"2", "5", ".", "0", "0">>, 300)>>
LineCard == <<I(<<"0", "8", "/", "0", "1", "/", "2", "0", "2", "4">>, 50), I(<<"C", "a", "r", "d">>, 120), I(<<"7", "5", ".", "0", "0">>, 460)>>

\* lines as parsePDF hands them over: top to bottom, items left to right
LinesOf(lineList) ==
    [k \in DOMAIN lineList |->
        [y |-> LineY(k),
         items |-> [i \in DOMAIN lineList[k] |->
                      [text |-> lineList[k][i].str, x |-> lineList[k][i].x,
                       y |-> LineY(k)]]]]

\* n times the same line
Repeated(l, n) == [k \in 1..n |-> l]

\* documents of more than 60 lines: dated lines, then a header row at index
\* 59, 60 or 61 and one line after it
LongLineLists ==
    { Repeated(LineSalary, n) \o <<LineHeaderDebitCredit, LineAtm>> :
        n \in (HeaderScanLines - 1)..(HeaderScanLines + 1) }

ScanLineLists(n) ==
    { <<LineHeaderDebitCredit>> \o body :
        body \in ListsUpTo({LineSalary, LineAtm, LineContinuation, LineFooter,
                            LineFeeBelow}, n) }
    \cup { <<LineHeaderAmountType>> \o body :
        body \in ListsUpTo({LineCoffee, LineGift, LineContinuation}, n) }
    \cup { <<LineHeaderAll>> \o body : body \in ListsUpTo({LineCard, LineAtm}, n) }
    \cup { <<LineSalary, LineHeaderNoMoney, LineHeaderDebitCredit, LineAtm>>,
           <<LineSalary, LineHeaderNoMoney, LineAtm>>, <<>> }
    \cup LongLineLists

InitScan ==
    /\ fIn \in {[fn |-> "columnBasedParse", lines |-> LinesOf(l), env |-> <<>>] :
                  l \in ScanLineLists(MaxScanLines)}
    /\ fOut = [ok |-> FALSE]
    /\ fPc = "call"
    /\ DateIdle /\ ValIdle /\ TabIdle /\ PdfIdle /\ EnvInit

\* const headerInfo = findHeaderRow(lines); if (!headerInfo) return [];
\* opened holds the index of the line that opened currentTxn (0: none), and
\* finalized the indices of the lines whose candidate finalizeTxn was given
FindHeaderStep ==
    /\ fPc = "call"
    /\ \E headerInfo \in {findHeaderRow(fIn.lines)} :
          IF headerInfo.ok
          THEN /\ fOut' = [ok |-> FALSE, headerInfo |-> headerInfo,
                           i |-> headerInfo.headerIdx + 1,
                           st |-> [currentTxn |-> NoCurrent, seen |-> {},
                                   transactions |-> <<>>],
                           opened |-> 0, finalized |-> <<>>]
               /\ fPc' = "scan"
          ELSE /\ fOut' = [ok |-> TRUE, headerInfo |-> headerInfo, transactions |-> <<>>]
               /\ fPc' = "done"
    /\ UNCHANGED <<fIn, dateVars, valVars, envVars, tabVars, pdfVars>>

\* the line at fOut.i has a date
DatedLine(lines, i, env) == extractDateFromText(LineText(lines[i]), env).ok

\* one pass of the loop `for (let i = headerIdx + 1; i < lines.length; i++)`
ScanLineStep ==
    /\ fPc = "scan"
    /\ fOut.i <= Len(fIn.lines)
    /\ fOut' = [fOut EXCEPT
                  !.st = ColumnScanLine(@, fIn.lines[fOut.i], fOut.headerInfo.columns,
                                        HeaderTypes(fOut.headerInfo), uuidNext, fIn.env),
                  !.i = @ + 1,
                  !.opened = IF DatedLine(fIn.lines, fOut.i, fIn.env) THEN fOut.i ELSE @,
                  !.finalized = IF DatedLine(fIn.lines, fOut.i, fIn.env) /\ fOut.opened # 0
                                THEN Append(@, fOut.opened) ELSE @]
    /\ UNCHANGED <<fIn, fPc, dateVars, valVars, envVars, tabVars, pdfVars>>

\* the loop is over: finalizeTxn(); return transactions;
FinalizeLastStep ==
    /\ fPc = "scan"
    /\ fOut.i > Len(fIn.lines)
    /\ \E st \in {finalizeTxn(fOut.st, HeaderTypes(fOut.headerInfo), uuidNext)} :
          fOut' = [ok |-> TRUE, headerInfo |-> fOut.headerInfo, st |-> st,
                   transactions |-> st.transactions, opened |-> fOut.opened,
                   finalized |-> IF fOut.opened # 0
                                 THEN Append(fOut.finalized, fOut.opened)
                                 ELSE fOut.finalized]
    /\ fPc' = "done"
    /\ UNCHANGED <<fIn, dateVars, valVars, envVars, tabVars, pdfVars>>

NextScan == FindHeaderStep \/ ScanLineStep \/ FinalizeLastStep

SpecScan == InitScan /\ [][NextScan]_vars

-----------------------------------------------------------------------------
(* assignToColumn as a function of its arguments, under SpecAssign         *)

\* the most columns of a header row
MaxColumns == 2

\* columns: a debit and a credit column of the same span, a credit and a type
\* column further right, a balance column 400 units wide
Col(type, x, xEnd) == [type |-> type, x |-> x, xEnd |-> xEnd]

SampleColumns ==
    {Col("debit", 300, 330), Col("credit", 300, 330), Col("credit", 380, 416),
     Col("type", 380, 404), Col("balance", 100, 500)}

\* positions: at a centre, at the edge of a reach and one unit beyond it, at
\* the greatest distance and one unit beyond it
SamplePositions == {60, 110, 259, 260, 315, 357, 415, 416, 500, 540}

InitAssign ==
    /\ fIn \in {[fn |-> "assignToColumn", x |-> x, columns |-> c, targetTypes |-> t] :
                  x \in SamplePositions, c \in ListsUpTo(SampleColumns, MaxColumns),
                  t \in {MoneyTypes, {"type"}}}
    /\ fOut = [ok |-> FALSE]
    /\ fPc = "call"
    /\ DateIdle /\ ValIdle /\ TabIdle /\ PdfIdle /\ EnvInit

\* const colType = assignToColumn(item.x, columns, [...])
AssignToColumnCall ==
    /\ fPc = "call"
    /\ fIn.fn = "assignToColumn"
    /\ fOut' = [ok |-> TRUE, type |-> assignToColumn(fIn.x, fIn.columns, fIn.targetTypes)]
    /\ fPc' = "done"
    /\ UNCHANGED <<fIn, dateVars, valVars, envVars, tabVars, pdfVars>>

NextAssign == AssignToColumnCall

SpecAssign == InitAssign /\ [][NextAssign]_vars

-----------------------------------------------------------------------------
(* The lines of the pages of a document, item by item, under SpecLayout    *)

\* the most fragments of a page
MaxFragments == 3

\* a fragment as pdf.js gives it
F(str, x, y) == [str |-> str, x |-> x, y |-> y]

\* fragments 0, 2, 3 and 20 units below the first one, two of them blank or
\* with white space around the text
SampleFragments ==
    {F(<<"a">>, 50, 700), F(<<"b">>, 120, 700), F(<<"c">>, 50, 702), F(<<"d">>, 120, 702),
     F(<<"e">>, 50, 703), F(<<"f">>, 50, 680), F(<<" ">>, 50, 700), F(<<" ", "g", " ">>, 90, 700)}

\* documents of one page, and two documents of two pages
SamplePageLists(n) ==
    { <<page>> : page \in ListsUpTo(SampleFragments, n) }
    \cup { <<<<F(<<"f">>, 50, 680)>>, <<F(<<"b">>, 120, 700), F(<<"a">>, 50, 700)>>>>,
           <<<<>>, <<F(<<"a">>, 50, 700)>>>> }

InitLayout ==
    /\ fIn \in {[fn |-> "pageLines", pages |-> pages] : pages \in SamplePageLists(MaxFragments)}
    /\ fOut = [ok |-> FALSE]
    /\ fPc = "call"
    /\ DateIdle /\ ValIdle /\ TabIdle /\ PdfIdle /\ EnvInit

\* the locals as the grouping loop of page p starts
AtPage(pages, p, allLines) ==
    [ok |-> FALSE, page |-> p, items |-> PageItems(pages[p]), k |-> 1,
     pageLines |-> <<>>, allLines |-> allLines]

\* the text content of the first page arrives: its items are filtered
FirstPageStep ==
    /\ fPc = "call"
    /\ fOut' = AtPage(fIn.pages, 1, <<>>)
    /\ fPc' = "group"
    /\ UNCHANGED <<fIn, dateVars, valVars, envVars, tabVars, pdfVars>>

\* one pass of the loop `for (const item of items)`
GroupItemStep ==
    /\ fPc = "group"
    /\ fOut.k <= Len(fOut.items)
    /\ fOut' = [fOut EXCEPT !.pageLines = GroupByY(@, <<fOut.items[fOut.k]>>, 1),
                            !.k = @ + 1]
    /\ UNCHANGED <<fIn, fPc, dateVars, valVars, envVars, tabVars, pdfVars>>

\* the items of the page are grouped: the lines are sorted and pushed on
\* allLines, and the next page is taken
SortPageStep ==
    /\ fPc = "group"
    /\ fOut.k > Len(fOut.items)
    /\ \E allLines \in {fOut.allLines \o SortedPageLines(fOut.pageLines)} :
          IF fOut.page < Len(fIn.pages)
          THEN fOut' = AtPage(fIn.pages, fOut.page + 1, allLines) /\ fPc' = "group"
          ELSE fOut' = [ok |-> TRUE, allLines |-> allLines] /\ fPc' = "done"
    /\ UNCHANGED <<fIn, dateVars, valVars, envVars, tabVars, pdfVars>>

NextLayout == FirstPageStep \/ GroupItemStep \/ SortPageStep

SpecLayout == InitLayout /\ [][NextLayout]_vars

-----------------------------------------------------------------------------
(* textBasedParse on statements of up to thirteen lines, under SpecText    *)

\* the most lines after the first lines of a statement
MaxTail == 2

\* ten lines of a statement: 10.00 is spent on each of the first ten days
\* of a month, the balance goes from 990.00 to 900.00
BaseLines ==
    <<<<I(<<"0", "1", "/", "0", "1", "/", "2", "0", "2", "4">>, 50), I(<<"S", "h", "o", "p">>, 120), I(<<"1", "0", ".", "0", "0">>, 300), I(<<"9", "9", "0", ".", "0", "0">>, 460)>>,
      <<I(<<"0", "2", "/", "0", "1", "/", "2", "0", "2", "4">>, 50), I(<<"S", "h", "o", "p">>, 120), I(<<"1", "0", ".", "0", "0">>, 300), I(<<"9", "8", "0", ".", "0", "0">>, 460)>>,
      <<I(<<"0", "3", "/", "0", "1", "/", "2", "0", "2", "4">>, 50), I(<<"S", "h", "o", "p">>, 120), I(<<"1", "0", ".", "0", "0">>, 300), I(<<"9", "7", "0", ".", "0", "0">>, 460)>>,
      <<I(<<"0", "4", "/", "0", "1", "/", "2", "0", "2", "4">>, 50), I(<<"S", "h", "o", "p">>, 120), I(<<"1", "0", ".", "0", "0">>, 300), I(<<"9", "6", "0", ".", "0", "0">>, 460)>>,
      <<I(<<"0", "5", "/", "0", "1", "/", "2", "0", "2", "4">>, 50), I(<<"S", "h", "o", "p">>, 120), I(<<"1", "0", ".", "0", "0">>, 300), I(<<"9", "5", "0", ".", "0", "0">>, 460)>>,
      <<I(<<"0", "6", "/", "0", "1", "/", "2", "0", "2", "4">>, 50), I(<<"S", "h", "o", "p">>, 120), I(<<"1", "0", ".", "0", "0">>, 300), I(<<"9", "4", "0", ".", "0", "0">>, 460)>>,
      <<I(<<"0", "7", "/", "0", "1", "/", "2", "0", "2", "4">>, 50), I(<<"S", "h", "o", "p">>, 120), I(<<"1", "0", ".", "0", "0">>, 300), I(<<"9", "3", "0", ".", "0", "0">>, 460)>>,
      <<I(<<"0", "8", "/", "0", "1", "/", "2", "0", "2", "4">>, 50), I(<<"S", "h", "o", "p">>, 120), I(<<"1", "0", ".", "0", "0">>, 300), I(<<"9", "2", "0", ".", "0", "0">>, 460)>>,
      <<I(<<"0", "9", "/", "0", "1", "/", "2", "0", "2", "4">>, 50), I(<<"S", "h", "o", "p">>, 120), I(<<"1", "0", ".", "0", "0">>, 300), I(<<"9", "1", "0", ".", "0", "0">>, 460)>>,
      <<I(<<"1", "0", "/", "0", "1", "/", "2", "0", "2", "4">>, 50), I(<<"S", "h", "o", "p">>, 120), I(<<"1", "0", ".", "0", "0">>, 300), I(<<"9", "0", "0", ".", "0", "0">>, 460)>>>>

\* the lines that follow: 10.00 spent, 25.00 refunded, a fee next to a
\* balance that fits no line before it, 7.00 spent after LineShopLater
LineShopLater == <<I(<<"1", "1", "/", "0", "1", "/", "2", "0", "2", "4">>, 50), I(<<"S", "h", "o", "p">>, 120), I(<<"1", "0", ".", "0", "0">>, 300), I(<<"8", "9", "0", ".", "0", "0">>, 460)>>
LineRefundLater == <<I(<<"1", "2", "/", "0", "1", "/", "2", "0", "2", "4">>, 50), I(<<"R", "e", "f", "u", "n", "d">>, 120), I(<<"2", "5", ".", "0", "0">>, 300), I(<<"9", "2", "5", ".", "0", "0">>, 460)>>
LineFeeLater == <<I(<<"1", "4", "/", "0", "1", "/", "2", "0", "2", "4">>, 50), I(<<"F", "e", "e">>, 120), I(<<"5", ".", "0", "0">>, 300), I(<<"1", "0", "0", ".", "0", "0">>, 460)>>

LineCardLater == <<I(<<"1", "3", "/", "0", "1", "/", "2", "0", "2", "4">>, 50), I(<<"C", "a", "r", "d">>, 120), I(<<"7", ".", "0", "0">>, 300), I(<<"8", "8", "3", ".", "0", "0">>, 460)>>

TailLines == {LineShopLater, LineRefundLater, LineFeeLater, LineCardLater, LineContinuation}

\* statements: none, three or ten of the first lines, then the lines that follow
TextLineLists(n) ==
    { SubSeq(BaseLines, 1, k) \o tail :
        k \in {0, LeastTrackedEntries, CheckedEntries}, tail \in ListsUpTo(TailLines, n) }

InitText ==
    /\ fIn \in {[fn |-> "textBasedParse", lines |-> LinesOf(l), env |-> <<>>] :
                  l \in TextLineLists(MaxTail)}
    /\ fOut = [ok |-> FALSE]
    /\ fPc = "call"
    /\ DateIdle /\ ValIdle /\ TabIdle /\ PdfIdle /\ EnvInit

\* textBasedParse(lines): the entries it collects, and what it returns
TextBasedParseCall ==
    /\ fPc = "call"
    /\ fIn.fn = "textBasedParse"
    /\ \E entries \in {EntriesFrom(fIn.lines, 1, fIn.env)} :
          fOut' = [ok |-> TRUE, entries |-> entries,
                   result |-> TextResultOf(entries, uuidNext)]
    /\ fPc' = "done"
    /\ UNCHANGED <<fIn, dateVars, valVars, envVars, tabVars, pdfVars>>

NextText == TextBasedParseCall

SpecText == InitText /\ [][NextText]_vars

-----------------------------------------------------------------------------
(* Properties of validateWithBalance, under SpecValidate                   *)

\* pair i of a list: both transactions carry a balance
PairHasBalances(txns, i) == txns[i - 1].balance.ok /\ txns[i].balance.ok

Delta(txns, i) == txns[i].balance.v - txns[i - 1].balance.v

HalfCarryBalance(txns) == 2 * Cardinality(WithBalance(txns)) >= Len(txns)

\* the type and the magnitude C6 states for the transaction i of the result
TypeFollowsDelta(in, out, i) ==
    out[i].type = IF in[i].balance.v > in[i - 1].balance.v THEN "income" ELSE "expense"

WithinTolerance(in, i) ==
    100 * Abs(Abs(in[i].amount) - Abs(Delta(in, i)))
        <= Abs(Delta(in, i)) + 2000

MagnitudeFollowsDelta(in, out, i) ==
    Abs(out[i].amount) = IF WithinTolerance(in, i) THEN Abs(in[i].amount)
                         ELSE Abs(Delta(in, i))

\* C6 as stated: after validateWithBalance has run on a list to which
\* validation applies, every transaction i >= 1 (0-based) whose pair carries
\* two different balances has the type of the sign of the balance difference
\* and the magnitude the tolerance rule gives.
C6_Original ==
    (vPc = "done" /\ Len(vIn) >= 3 /\ HalfCarryBalance(vIn)) =>
        \A i \in 2..Len(vIn) :
            (PairHasBalances(vIn, i) /\ Delta(vIn, i) # 0) =>
                TypeFollowsDelta(vIn, vOut, i) /\ MagnitudeFollowsDelta(vIn, vOut, i)

\* C6 amended: the same for every pair whose balances differ by at least 0.01,
\* the magnitude being replaced by |delta| only when |delta| exceeds 0.01; a
\* pair whose balances differ by less than 0.01 is left as it was.
C6_TypeAndAmountFollowBalance ==
    (vPc = "done" /\ Len(vIn) >= 3 /\ HalfCarryBalance(vIn)) =>
        \A i \in 2..Len(vIn) :
            PairHasBalances(vIn, i) =>
                IF Abs(Delta(vIn, i)) >= 10
                THEN /\ TypeFollowsDelta(vIn, vOut, i)
                     /\ IF Abs(Delta(vIn, i)) > 10
                        THEN MagnitudeFollowsDelta(vIn, vOut, i)
                        ELSE Abs(vOut[i].amount) = Abs(vIn[i].amount)
                     /\ (vOut[i].amount < 0) = (vOut[i].type = "expense")
                ELSE vOut[i] = vIn[i]

\* a list of three with balances rising then falling by 30, all recorded as
\* income of 50: the third comes out as an expense of 30
C6_Witness ==
    /\ vPc = "done"
    /\ Len(vIn) = 3
    /\ \A i \in 1..3 : vIn[i].balance.ok /\ vIn[i].type = "income"
                                         /\ vIn[i].amount = 50000
    /\ Delta(vIn, 2) = 30000
    /\ Delta(vIn, 3) = -30000
    /\ vOut[3].type = "expense"
    /\ vOut[3].amount = -30000

\* C7 as stated: the list comes back unchanged when fewer than half of the
\* transactions carry a balance, and the pairwise correction runs on every
\* list in which at least half do, whatever its length.
C7_Original ==
    vPc = "done" =>
        /\ ~HalfCarryBalance(vIn) => vOut = vIn
        /\ HalfCarryBalance(vIn) =>
              \A i \in 2..Len(vIn) :
                  (PairHasBalances(vIn, i) /\ Abs(Delta(vIn, i)) >= 10) =>
                      TypeFollowsDelta(vIn, vOut, i)

\* C7 amended: the list comes back unchanged when fewer than half of the
\* transactions carry a balance or when it has fewer than 3 transactions; the
\* pairwise correction runs on every list of at least 3 transactions in which
\* at least half carry a balance.
C7_AppliesFromThreeWithHalfBalances ==
    vPc = "done" =>
        /\ (~HalfCarryBalance(vIn) \/ Len(vIn) < 3) => vOut = vIn
        /\ (HalfCarryBalance(vIn) /\ Len(vIn) >= 3) =>
              \A i \in 2..Len(vIn) :
                  (PairHasBalances(vIn, i) /\ Abs(Delta(vIn, i)) >= 10) =>
                      TypeFollowsDelta(vIn, vOut, i)

\* a list of two, both with a balance, whose second type contradicts the
\* balances, comes back unchanged
C7_Witness ==
    /\ vPc = "done"
    /\ Len(vIn) = 2
    /\ PairHasBalances(vIn, 2)
    /\ Delta(vIn, 2) = 30000
    /\ vIn[2].type = "expense"
    /\ vOut = vIn

\* what a call leaves alone: length and order, the identity fields of every
\* transaction, the first transaction, and every transaction whose pair lacks
\* a balance or has equal balances
ValidateFrame(in, out) ==
    /\ Len(out) = Len(in)
    /\ \A i \in DOMAIN in :
          /\ out[i].id = in[i].id
          /\ out[i].date = in[i].date
          /\ out[i].description = in[i].description
          /\ out[i].balance = in[i].balance
    /\ (in # <<>> => out[1] = in[1])
    /\ \A i \in 2..Len(in) :
          (~PairHasBalances(in, i) \/ Delta(in, i) = 0) => out[i] = in[i]

\* C8: validateWithBalance returns a list of the same length and order with
\* id, date, description and balance of every transaction unchanged; the first
\* transaction is unchanged, transaction i is unchanged when transaction i-1 or
\* i has no balance or when their balances are equal; the argument list is not
\* mutated.
C8_ValidateFrame ==
    [][(vPc = "call" /\ vPc' = "done") => (ValidateFrame(vIn, vOut') /\ vIn' = vIn)]_vars

\* a call that changed a transaction and left one with equal balances alone
C8_Witness ==
    /\ vPc = "done"
    /\ Len(vIn) = 3
    /\ PairHasBalances(vIn, 2) /\ Delta(vIn, 2) = 0
    /\ PairHasBalances(vIn, 3) /\ Delta(vIn, 3) # 0
    /\ vIn[2].type = "expense"
    /\ vOut[3] # vIn[3]
    /\ vOut[2] = vIn[2]

-----------------------------------------------------------------------------
(* Properties of parseDate, under SpecDate                                 *)

MatchesSomePattern(cleaned) ==
    \E k \in DOMAIN DATE_PATTERNS : FullMatch(DATE_PATTERNS[k].re, cleaned).ok

\* C10: parseDate returns a date or none for every string; it returns none for
\* every string that matches none of the patterns and that the Date
\* constructor does not accept; every date it returns has its year in
\* [1990, 2100].
C10_ParseDateTotal ==
    dPc = "done" =>
        /\ \/ dOut = NoDate
           \/ /\ dOut.ok
              /\ dOut.year \in MinYear..MaxYear
              /\ dOut.month \in 0..11
              /\ dOut.day \in 1..31
        /\ (~MatchesSomePattern(CleanDate(dRaw)) /\ ~dNative.ok) => dOut = NoDate

\* a non-empty string that matches no pattern and is no generic date
C10_Witness ==
    /\ dPc = "done"
    /\ dRaw # <<>>
    /\ ~MatchesSomePattern(CleanDate(dRaw))
    /\ ~dNative.ok
    /\ dOut = NoDate

-----------------------------------------------------------------------------
(* Properties of parseCSV and parseXLS, under SpecTab                      *)

\* the table a call has read: the only one of a CSV file, the first sheet of
\* a workbook
TableRead ==
    IF tFile.format = "csv" THEN [headers |-> tFile.headers, rows |-> tFile.rows]
    ELSE tFile.sheets[1]

MappingRead ==
    detectColumns(IF tFile.format = "csv" THEN CSV_KEYWORDS ELSE XLS_KEYWORDS,
                  TableRead.headers)

\* the value of a money cell and the date of a date cell, as the format reads
\* them
CellValue(cell) ==
    IF tFile.format = "csv" THEN csvCleanAmount(cell) ELSE xlsCleanAmount(cell)

CellDate(cell) ==
    IF cell.t = "str" THEN parseDateIn(tFile.env, cell.s)
    ELSE IF cell.t = "num" /\ tFile.format # "csv" THEN excelSerialToDate(cell.v \div 1000)
    ELSE NoDate

Nonzero(value) == value.ok /\ value.v # 0

\* a row with a parseable date and a nonzero debit or credit cell
RowCounts(row) ==
    /\ CellDate(row[MappingRead.dateCol]).ok
    /\ \/ Nonzero(CellValue(row[MappingRead.debitCol]))
       \/ Nonzero(CellValue(row[MappingRead.creditCol]))

\* what C3 states about the transaction of such a row
RowOutcome(row) ==
    LET debit == CellValue(row[MappingRead.debitCol])
        credit == CellValue(row[MappingRead.creditCol])
    IN  [date |-> CellDate(row[MappingRead.dateCol]),
         amount |-> IF Nonzero(debit) THEN -Abs(debit.v) ELSE Abs(credit.v),
         type |-> IF Nonzero(debit) THEN "expense" ELSE "income",
         balance |-> CellValue(row[MappingRead.balanceCol])]

OutcomeOf(txn) ==
    [date |-> txn.date, amount |-> txn.amount, type |-> txn.type, balance |-> txn.balance]

\* a finished call on a readable file with one table that has rows and whose
\* headers map to a date, a debit, a credit and a balance column
FourRoleTableParsed ==
    /\ tPc = "done"
    /\ tFile.readable
    /\ tFile.format # "csv" => Len(tFile.sheets) = 1
    /\ TableRead.rows # <<>>
    /\ MappingRead.dateCol # 0 /\ MappingRead.debitCol # 0
    /\ MappingRead.creditCol # 0 /\ MappingRead.balanceCol # 0

-----------------------------------------------------------------------------
(* Properties of parsePDF, under SpecPdf                                   *)

\* an invocation that has returned a statement
Returned(r) == pRuns[r].pc = "done" /\ pRuns[r].out.status = "resolved"

\* the dedup key of a transaction
KeyOf(txn) == DedupKey(txn.date, Abs(txn.amount), txn.description)

KeysDiffer(txns) ==
    \A i, j \in DOMAIN txns : i # j => KeyOf(txns[i]) # KeyOf(txns[j])

\* C2 as stated: the final transaction list returned by parsePDF, after
\* strategy selection and after validateWithBalance, never contains two
\* transactions with the same dedup key.
C2_Original ==
    \A r \in Runs : Returned(r) => KeysDiffer(pRuns[r].out.transactions)

\* C2: the list parsePDF hands to validateWithBalance (after strategy
\* selection) never contains two transactions with the same dedup key,
\* whichever strategy produced them; two transactions of the final list have
\* the same key only if validateWithBalance rewrote the amount of one of them.
C2_KeysDifferBeforeValidation ==
    \A r \in Runs : Returned(r) =>
        LET chosen == pRuns[r].strategies.chosen
            final == pRuns[r].out.transactions
        IN  /\ KeysDiffer(chosen)
            /\ Len(final) = Len(chosen)
            /\ \A i, j \in DOMAIN final :
                  (i # j /\ KeyOf(final[i]) = KeyOf(final[j])) =>
                      (final[i].amount # chosen[i].amount
                          \/ final[j].amount # chosen[j].amount)

\* the column strategy returned three transactions with different keys, and
\* validateWithBalance gave two of them the same key
C2_Witness ==
    \E r \in Runs :
        /\ Returned(r)
        /\ pRuns[r].strategies.kept = "column"
        /\ Len(pRuns[r].out.transactions) = 3
        /\ KeysDiffer(pRuns[r].strategies.chosen)
        /\ ~KeysDiffer(pRuns[r].out.transactions)

\* C4: the list handed to validateWithBalance is the column-position result
\* whenever that result has at least 3 transactions, and the text-heuristic
\* strategy is then not run; when it has fewer than 3, the text-heuristic
\* result is computed and the larger of the two lists is kept, the
\* column-position list when both have the same length.
C4_StrategySelection ==
    \A r \in Runs : Returned(r) =>
        LET s == pRuns[r].strategies
        IN  /\ Len(s.column) >= 3 =>
                  (~s.fallback /\ s.text = <<>> /\ s.chosen = s.column)
            /\ Len(s.column) < 3 =>
                  /\ s.fallback
                  /\ s.chosen = IF Len(s.text) > Len(s.column) THEN s.text ELSE s.column
            /\ pRuns[r].out.transactions = validateWithBalance(s.chosen)

\* both strategies gave one or two transactions, not the same ones: the list
\* of the column strategy was kept
C4_Witness ==
    \E r \in Runs :
        /\ Returned(r)
        /\ pRuns[r].strategies.fallback
        /\ pRuns[r].strategies.column # <<>>
        /\ Len(pRuns[r].strategies.text) = Len(pRuns[r].strategies.column)
        /\ pRuns[r].strategies.text # pRuns[r].strategies.column
        /\ pRuns[r].strategies.chosen = pRuns[r].strategies.column

-----------------------------------------------------------------------------
(* Properties of the three parsers, under SpecParsers                      *)

\* the amount is not zero and its sign goes with the type
SignMatchesType(txn) ==
    /\ txn.amount # 0
    /\ txn.type \in {"income", "expense"}
    /\ txn.amount > 0 <=> txn.type = "income"
    /\ txn.amount < 0 <=> txn.type = "expense"

AllSigned(txns) == \A i \in DOMAIN txns : SignMatchesType(txns[i])

\* C1: every transaction returned by parsePDF, parseCSV or parseXLS has an
\* amount other than 0 that is positive exactly when the type is income and
\* negative exactly when it is expense; so has every transaction of the column
\* strategy, of the text strategy with balance tracking or with keywords and
\* of the tabular rows, and it still holds after validateWithBalance.
C1_SignMatchesType ==
    /\ (tPc = "done" /\ tOut.status = "resolved") => AllSigned(tOut.transactions)
    /\ \A r \in Runs : Returned(r) =>
          /\ AllSigned(pRuns[r].strategies.column)
          /\ AllSigned(pRuns[r].strategies.text)
          /\ AllSigned(pRuns[r].strategies.chosen)
          /\ AllSigned(pRuns[r].out.transactions)

\* validateWithBalance rewrote the amount of a transaction of the column
\* strategy
C1_Witness ==
    \E r \in Runs :
        /\ Returned(r)
        /\ pRuns[r].strategies.kept = "column"
        /\ \E i \in DOMAIN pRuns[r].out.transactions :
              /\ pRuns[r].out.transactions[i].amount # pRuns[r].strategies.chosen[i].amount
              /\ pRuns[r].out.transactions[i].type = "expense"

\* the table of a file has no usable column mapping
Unusable(kw, headers) == ~MappingUsable(detectColumns(kw, headers))

\* C5 as stated: in each format path, when no usable column mapping is found
\* the parse ends in an error outcome and no transactions are returned.
C5_Original ==
    /\ (tPc = "done" /\ tFile.readable /\ tFile.format = "csv"
            /\ Unusable(CSV_KEYWORDS, tFile.headers))
          => tOut.status = "rejected"
    /\ (tPc = "done" /\ tFile.readable /\ tFile.format # "csv"
            /\ \A k \in DOMAIN tFile.sheets : Unusable(XLS_KEYWORDS, tFile.sheets[k].headers))
          => tOut.status = "rejected"
    /\ \A r \in Runs :
          (pRuns[r].pc = "done" /\ pRuns[r].file.readable
              /\ ~findHeaderRow(pRuns[r].allLines).ok)
            => pRuns[r].out.status = "rejected"

\* C5: in the delimited-text path, when no usable column mapping is found (no
\* date role, or none of amount/debit/credit), the parse ends in an error
\* outcome surfaced to the caller and no transactions are returned; in the
\* spreadsheet path a workbook none of whose sheets has a usable mapping yields
\* a statement without transactions and no error; in the PDF path a document
\* without a header row yields no error either: the column strategy returns
\* nothing and the statement holds what the text strategy returns, validated.
C5_NoMappingOutcome ==
    /\ (tPc = "done" /\ tFile.readable /\ tFile.format = "csv"
            /\ Unusable(CSV_KEYWORDS, tFile.headers))
          => (tOut.status = "rejected" /\ "transactions" \notin DOMAIN tOut)
    /\ (tPc = "done" /\ tFile.readable /\ tFile.format # "csv"
            /\ \A k \in DOMAIN tFile.sheets : Unusable(XLS_KEYWORDS, tFile.sheets[k].headers))
          => (tOut.status = "resolved" /\ tOut.transactions = <<>>)
    /\ \A r \in Runs :
          (pRuns[r].pc = "done" /\ pRuns[r].file.readable
              /\ ~findHeaderRow(pRuns[r].allLines).ok)
            => /\ pRuns[r].out.status = "resolved"
               /\ pRuns[r].strategies.column = <<>>
               /\ pRuns[r].strategies.fallback
               /\ pRuns[r].out.transactions = validateWithBalance(pRuns[r].strategies.text)

\* a CSV file with rows and without a date column was rejected
C5_Witness ==
    /\ tPc = "done"
    /\ tFile.format = "csv"
    /\ tFile.readable
    /\ tFile.rows # <<>>
    /\ detectColumns(CSV_KEYWORDS, tFile.headers).dateCol = 0
    /\ tOut.status = "rejected"

-----------------------------------------------------------------------------
(* Properties of several invocations of parsePDF, under SpecPdfRuns        *)

\* a transaction without its identifier, a statement without the identifiers
\* and without parseDate
WithoutId(txn) ==
    [date |-> txn.date, description |-> txn.description, amount |-> txn.amount,
     category |-> txn.category, type |-> txn.type, balance |-> txn.balance,
     originalText |-> txn.originalText]

WithoutIdsAndTimestamp(out) ==
    IF out.status = "resolved"
    THEN [status |-> out.status, format |-> out.format, rawText |-> out.rawText,
          transactions |-> [i \in DOMAIN out.transactions |-> WithoutId(out.transactions[i])]]
    ELSE out

BothDoneOnSameInput(r1, r2) ==
    /\ r1 # r2
    /\ pRuns[r1].pc = "done" /\ pRuns[r2].pc = "done"
    /\ pRuns[r1].file = pRuns[r2].file

\* C9 as stated: two invocations on identical input produce identical output,
\* whatever other documents were parsed before, between or concurrently.
C9_Original ==
    \A r1, r2 \in Runs : BothDoneOnSameInput(r1, r2) => pRuns[r1].out = pRuns[r2].out

\* C9: two invocations of the extraction pipeline on identical input produce
\* output that is identical but for the identifiers of the transactions and
\* the parse timestamp, whatever other documents were parsed before, between
\* or concurrently with them: no component keeps state across parse
\* invocations, and nothing else in the output depends on anything but the
\* input.
C9_SameOutputButIdsAndTimestamp ==
    \A r1, r2 \in Runs : BothDoneOnSameInput(r1, r2) =>
        WithoutIdsAndTimestamp(pRuns[r1].out) = WithoutIdsAndTimestamp(pRuns[r2].out)

\* two invocations on one document and a third on another have returned
\* transactions; the two statements differ
C9_Witness ==
    /\ BothDoneOnSameInput(1, 2)
    /\ Returned(1) /\ pRuns[1].out.transactions # <<>>
    /\ Returned(3) /\ pRuns[3].out.transactions # <<>>
    /\ pRuns[3].file # pRuns[1].file
    /\ pRuns[1].out # pRuns[2].out

-----------------------------------------------------------------------------
(* Round trips of parseDate, under SpecDate                                *)

\* two digits below this are a year of the 2000s
TwoDigitPivot == 50

\* the families that write the year with two digits
TwoDigitFamilies == {"dmy2", "dotDmy2"}

\* (y, m, d), m 1-based, is a date of the calendar
ValidCalendarDate(y, m, d) == m \in 1..12 /\ d \in 1..DaysInMonth(y, m - 1)

\* the call has returned the date (y, m, d) written in family f
RoundTrips(f, y, m, d) == dRaw = Serialize(f, y, m, d) => dOut = Date(y, m - 1, d)

\* C11 as stated: every family, every valid date with its year in
\* [1990, 2100].
C11_Original ==
    dPc = "done" =>
        \A f \in Families, y \in SampleYears, m \in SampleMonths, d \in SampleDays :
            (ValidCalendarDate(y, m, d) /\ y \in MinYear..MaxYear) => RoundTrips(f, y, m, d)

\* C11: for every supported pattern family and every valid calendar date
\* (y, m, d) with y in [1990, 2100] (in the two families that write the year
\* with two digits: y in [1990, 2049], the years the two digits expand to),
\* parseDate applied to the date serialized in that family returns a date
\* with the same year, month and day.
C11_RoundTrip ==
    dPc = "done" =>
        \A f \in Families, y \in SampleYears, m \in SampleMonths, d \in SampleDays :
            (/\ ValidCalendarDate(y, m, d)
             /\ y \in MinYear..MaxYear
             /\ (f \in TwoDigitFamilies => y < 2000 + TwoDigitPivot))
                => RoundTrips(f, y, m, d)

\* 29 February 2024 written with a two-digit year has come back
C11_Witness ==
    /\ dPc = "done"
    /\ dRaw = Serialize("dmy2", 2024, 2, 29)
    /\ dOut = Date(2024, 1, 29)

\* (y, m, d), m 1-based, names a day beyond the end of month m
DayBeyondMonth(y, m, d) == m \in 1..12 /\ d > DaysInMonth(y, m - 1)

\* C12: parseDate returns none for every string that denotes a day beyond the
\* end of its month, in any supported pattern family: the candidate is
\* rejected and no later step returns a date for it.
C12_Original ==
    dPc = "done" =>
        \A f \in Families, y \in SampleYears, m \in SampleMonths, d \in SampleDays :
            (DayBeyondMonth(y, m, d) /\ dRaw = Serialize(f, y, m, d)) => dOut = NoDate

-----------------------------------------------------------------------------
(* Properties of detectDateOrder, under SpecOrder                          *)

\* a sample of the bare D/M/Y shape, and its first two numeric groups
BareShape(ds) == FullMatch(DateOrderPattern, ds).ok
FirstGroup(ds) == ToNum(Group(ds, 1, FullMatch(DateOrderPattern, ds).lens, 1))
SecondGroup(ds) == ToNum(Group(ds, 1, FullMatch(DateOrderPattern, ds).lens, 3))

\* the samples of the bare shape whose first (second) group lies in lo..hi
FirstIn(dateStrings, lo, hi) ==
    {k \in DOMAIN dateStrings :
        BareShape(dateStrings[k]) /\ FirstGroup(dateStrings[k]) \in lo..hi}
SecondIn(dateStrings, lo, hi) ==
    {k \in DOMAIN dateStrings :
        BareShape(dateStrings[k]) /\ SecondGroup(dateStrings[k]) \in lo..hi}

\* the scores are 5 for each sample counted, and MDY is returned only on a
\* strictly greater MDY score
ScoresCount(hi) ==
    fPc = "done" /\ fIn.fn = "detectDateOrder" =>
        /\ fOut.scores.dmy = 5 * Cardinality(FirstIn(fIn.dateStrings, 13, hi))
        /\ fOut.scores.mdy = 5 * Cardinality(SecondIn(fIn.dateStrings, 13, hi))
        /\ fOut.order = IF fOut.scores.mdy > fOut.scores.dmy THEN "MDY" ELSE "DMY"
        /\ (\A k \in DOMAIN fIn.dateStrings : ~BareShape(fIn.dateStrings[k]))
                => fOut.order = "DMY"

\* C13 as stated: every first (second) group greater than 12 counts.
C13_Original == ScoresCount(99)

\* C13: detectDateOrder adds 5 to the DMY score for each sample of bare D/M/Y
\* shape whose first numeric group is greater than 12 and at most 31, and 5 to
\* the MDY score for each whose second group is greater than 12 and at most
\* 31; it returns MDY only when the MDY score is strictly greater than the DMY
\* score and returns DMY on a tie, on an empty sample list and when no sample
\* has the shape.
C13_ScoresAndOrder == ScoresCount(31)

\* a batch with a day-second sample and a sample whose first group is no day:
\* MDY is returned
C13_Witness ==
    /\ fPc = "done" /\ fIn.fn = "detectDateOrder"
    /\ Len(fIn.dateStrings) = 2
    /\ FirstIn(fIn.dateStrings, 32, 99) # {}
    /\ SecondIn(fIn.dateStrings, 13, 31) # {}
    /\ fOut.order = "MDY"

-----------------------------------------------------------------------------
(* Date order of a delimited-text document, under SpecTab                  *)

\* the order detected across the batch of the document parseCSV has read
BatchOrder ==
    detectDateOrder(SampleDates(tFile.rows, detectColumns(CSV_KEYWORDS, tFile.headers)))

\* a numeric date whose two leading groups are both at most 12
ReadsEitherWay(raw) ==
    /\ BareShape(raw)
    /\ FirstGroup(raw) \in 1..12
    /\ SecondGroup(raw) \in 1..12

\* the date a numeric date string denotes in an order
DateInOrder(raw, order) ==
    LET year == expandYear(ToNum(Group(raw, 1, FullMatch(DateOrderPattern, raw).lens, 5)))
    IN  IF order = "MDY" THEN Date(year, FirstGroup(raw) - 1, SecondGroup(raw))
        ELSE Date(year, SecondGroup(raw) - 1, FirstGroup(raw))

\* the date cell of a row of the document
DateCell(row) == CellAt(row, detectColumns(CSV_KEYWORDS, tFile.headers).dateCol)

\* C14: the numeric date order detected across the batch of a delimited-text
\* document is used for that document's dates: a numeric date whose two
\* leading groups are both at most 12 is parsed month-first when the batch is
\* detected as MDY and day-first when it is detected as DMY.
C14_Original ==
    (tPc = "done" /\ tFile.format = "csv" /\ tOut.status = "resolved") =>
        \A i \in DOMAIN tOut.transactions :
            \E k \in DOMAIN tFile.rows :
                /\ tOut.transactions[i].originalText
                        = JsonStringify(tFile.headers, tFile.rows[k])
                /\ ReadsEitherWay(DateCell(tFile.rows[k]).s)
                        => tOut.transactions[i].date
                                = DateInOrder(DateCell(tFile.rows[k]).s, BatchOrder)

-----------------------------------------------------------------------------
(* C15: what the amount normalisers refuse, under SpecAmount                *)

AmountNormalizers == {"parseAmount", "csvCleanAmount", "xlsCleanAmount"}

\* the texts the claim names: empty, a lone dash, a double dash
RefusedTexts == { <<>>, <<"-">>, <<"-", "-">> }

\* C15: each of the three amount normalisers (parseAmount of the PDF path, the
\* cleanAmount of the CSV path and the one of the XLS path) answers none for an
\* empty text, for a lone dash and for a double dash, and never returns the
\* amount 0: an input whose number is 0 is answered with none.
C15_Original ==
    (fPc = "done" /\ fIn.fn \in AmountNormalizers) =>
        /\ (fIn.raw.t = "str" /\ Trim(fIn.raw.s) \in RefusedTexts) => ~fOut.amount.ok
        /\ fOut.amount.ok => fOut.amount.v # 0

\* zero in the spellings a statement uses
ZeroTexts ==
    { <<"0">>, <<"0", ".", "0", "0">>, <<"0", ",", "0", "0">>, <<"-", "0">>,
      <<"(", "0", ")">> }

HasDigit(s) == \E i \in DOMAIN s : s[i] \in Digits

\* C15, as the code has it: each of the three normalisers answers none for an
\* empty text, a lone dash, a double dash, a missing cell and a text without a
\* digit.  parseAmount never returns 0, and the XLS cleanAmount answers none
\* for the number 0; for a text that spells zero the two cleanAmount return
\* the amount 0, which parseRow tests after the call.
C15_NoneAndZero ==
    (fPc = "done" /\ fIn.fn \in AmountNormalizers) =>
        /\ (fIn.raw.t = "str" /\ Trim(fIn.raw.s) \in RefusedTexts) => ~fOut.amount.ok
        /\ (fIn.raw.t = "str" /\ ~HasDigit(fIn.raw.s)) => ~fOut.amount.ok
        /\ fIn.raw.t = "none" => ~fOut.amount.ok
        /\ (fIn.fn = "parseAmount" /\ fOut.amount.ok) => fOut.amount.v # 0
        /\ (fIn.raw.t = "num" /\ fOut.amount.ok) => fOut.amount.v # 0
        /\ (fIn.fn # "parseAmount" /\ fIn.raw.t = "str" /\ fIn.raw.s \in ZeroTexts) =>
               fOut.amount = Num(0)

\* the CSV cleanAmount has returned 0 for the text 0.00
C15_Witness ==
    /\ fPc = "done"
    /\ fIn = [fn |-> "csvCleanAmount", raw |-> StrCell(<<"0", ".", "0", "0">>)]
    /\ fOut.amount = Num(0)

-----------------------------------------------------------------------------
(* C16: the decimal mark and the sign of an amount, under SpecAmount        *)

\* the digits and separators of an amount
NumberChars == Digits \cup {",", "."}

\* the text without the parentheses around it and without its leading minus
Unwrapped(s) == IF Parenthesized(s) THEN Inner(s) ELSE s

Unminused(s) == IF At(s, 1) = "-" THEN Tail(s) ELSE s

NumberPart(s) == Unminused(Unwrapped(s))

\* a well-formed amount text: digits, commas and dots, with at most one minus
\* in front and at most one pair of parentheses around
PlainAmount(s) ==
    /\ HasDigit(s)
    /\ \A i \in DOMAIN NumberPart(s) : NumberPart(s)[i] \in NumberChars

\* the rule of the claim: the last comma lies right of the last dot and 1 or 2
\* characters, all digits, follow it
CommaIsDecimalMark(s) ==
    /\ LastIndexOf(s, ",") > LastIndexOf(s, ".")
    /\ Len(From(s, LastIndexOf(s, ",") + 1)) \in 1..2
    /\ \A i \in DOMAIN From(s, LastIndexOf(s, ",") + 1) :
           From(s, LastIndexOf(s, ",") + 1)[i] \in Digits

\* the number the rule of the claim reads: dots dropped and the comma a decimal
\* mark, or every comma dropped
ReadByRule(s) ==
    ParseFloat(IF CommaIsDecimalMark(s)
               THEN ReplaceFirstComma(Keep(s, Range(s) \ {"."}))
               ELSE Keep(s, Range(s) \ {","}))

IsNegative(s) == Parenthesized(s) \/ At(s, 1) = "-" \/ At(Unwrapped(s), 1) = "-"

\* C16: for a well-formed amount text the normalisers of the PDF and CSV paths
\* (and the XLS one, built the same way) read the comma as the decimal mark
\* exactly when the last comma lies right of the last dot and 1 or 2 digits
\* follow it, dropping the dots, and drop every comma otherwise; parentheses or
\* a leading minus make the amount negative.  So 1.234,56 is 1234.56 and
\* (1,234.56) is -1234.56.
C16_Original ==
    (/\ fPc = "done" /\ fIn.fn \in AmountNormalizers
     /\ fIn.raw.t = "str" /\ PlainAmount(fIn.raw.s)
     /\ ReadByRule(NumberPart(fIn.raw.s)).ok
     /\ ReadByRule(NumberPart(fIn.raw.s)).v # 0) =>
        fOut.amount = Num(IF IsNegative(fIn.raw.s)
                          THEN -ReadByRule(NumberPart(fIn.raw.s)).v
                          ELSE ReadByRule(NumberPart(fIn.raw.s)).v)

-----------------------------------------------------------------------------
(* C17: the scores and the choice of detectCurrencyFromText, under          *)
(* SpecCurrency                                                             *)

\* the currency symbols of the catalogue's patterns: the rupee, euro and
\* dollar signs (A$ is the dollar sign after a letter)
LiteralSymbols == {"RUPEE", "EURO", "$"}

HoldsSymbol(source, symbols) == \E i \in DOMAIN source : source[i] \in symbols

\* an ISO code between two \b: seven characters, the middle three capitals
IsoCodePattern(source) ==
    /\ Len(source) = 7
    /\ \A i \in 3..5 : source[i] \in Range(UpperSeq)

\* the score of entry i when a symbol pattern (one holding a symbol of the
\* given set) weighs 3, a code pattern 2 and any other pattern 1
RECURSIVE WeighedFrom(_, _, _, _)
WeighedFrom(patterns, text, symbols, k) ==
    IF k > Len(patterns) THEN 0
    ELSE MatchCount(patterns[k].re, ToLower(text), 1)
             * (IF HoldsSymbol(patterns[k].source, symbols) THEN 3
                ELSE IF IsoCodePattern(patterns[k].source) THEN 2 ELSE 1)
         + WeighedFrom(patterns, text, symbols, k + 1)

Weighed(i, symbols) == WeighedFrom(CURRENCY_DB[i].patterns, fIn.text, symbols, 1)

\* the entry the claim names for given scores: the first with the highest
\* score, none when that score is 0
FirstBest(score(_)) ==
    IF \A i \in DOMAIN CURRENCY_DB : score(i) = 0 THEN NoCurrency
    ELSE [ok |-> TRUE,
          code |-> CURRENCY_DB[CHOOSE i \in DOMAIN CURRENCY_DB :
                                  /\ \A j \in DOMAIN CURRENCY_DB : score(j) <= score(i)
                                  /\ \A j \in 1..(i - 1) : score(j) < score(i)].code]

ScoredWith(symbols) ==
    LET score(i) == Weighed(i, symbols)
    IN  (fPc = "done" /\ fIn.fn = "detectCurrencyFromText") =>
            /\ \A i \in DOMAIN CURRENCY_DB : fOut.scores[i] = score(i)
            /\ fOut.currency = FirstBest(score)

\* C17: the score of each catalogue entry is the sum over its patterns of the
\* occurrences in the sample times the weight, 3 for every pattern that is a
\* literal currency symbol, 2 for an ISO code, 1 for a descriptive word; the
\* entry with the highest score is returned, the first examined among equal
\* scores, and none when the best score is 0.
C17_Original == ScoredWith(LiteralSymbols)

\* C17, as the code has it: the weight is 3 for a pattern that holds one of the
\* symbols of the class of the weight test, which has no dollar sign; a
\* pattern with the dollar sign ($, A$) weighs 1 like a word.  The choice is
\* as the claim says.
C17_ScoresAndChoice == ScoredWith(SymbolClass)

\* a text with one dollar sign and one code of a later entry: the later entry,
\* with 2, has beaten the dollar sign's 1; and a tie that the first entry won
C17_Witness ==
    /\ fPc = "done" /\ fIn.fn = "detectCurrencyFromText"
    /\ \/ /\ fOut.scores[2] = 1 /\ fOut.scores[3] = 2
          /\ fOut.currency = [ok |-> TRUE, code |-> "EUR"]
       \/ /\ fOut.scores[1] = 3 /\ fOut.scores[3] = 3
          /\ fOut.currency = [ok |-> TRUE, code |-> "INR"]

-----------------------------------------------------------------------------
(* C18: one role per header, under SpecColumns                              *)

SingleRoles == {"dateCol", "amountCol", "debitCol", "creditCol", "typeCol", "balanceCol"}

\* the roles that the mapping gives to the header at position i
RolesOf(mapping, i) ==
    {r \in SingleRoles : mapping[r] = i}
        \cup (IF \E k \in DOMAIN mapping.descriptionCols : mapping.descriptionCols[k] = i
              THEN {"description"} ELSE {})

\* the keywords of role k of the PDF catalogue hit the normalised header
RoleHits(text, k) ==
    \E i \in DOMAIN COL_KEYWORDS[k][2] :
        Includes(Trim(Keep(ToLower(text),
                           Range(LowerSeq) \cup Digits \cup Spaces \cup {"/", "(", ")", "."})),
                 COL_KEYWORDS[k][2][i])

\* C18: in every column mapping built, each header holds at most one role (no
\* header is at once description and credit, or amount and debit), and a header
\* that matches the keywords of several roles gets the first of them in the
\* fixed order of the roles.
C18_Original ==
    /\ (fPc = "done" /\ fIn.fn \in {"csvDetectColumns", "xlsDetectColumns"}) =>
           \A i \in DOMAIN fIn.headers : Cardinality(RolesOf(fOut.mapping, i)) <= 1
    /\ (fPc = "done" /\ fIn.fn = "classifyHeaderItem") =>
           \A k \in DOMAIN COL_KEYWORDS :
               (RoleHits(fIn.headers[1], k)
                    /\ \A j \in 1..(k - 1) : ~RoleHits(fIn.headers[1], j))
                   => fOut.type = COL_KEYWORDS[k][1]

-----------------------------------------------------------------------------
(* C19: the length of the original text, under SpecParsers                  *)

OriginalTextsBounded(txns) ==
    \A i \in DOMAIN txns : Len(txns[i].originalText) <= OriginalTextLen

\* C19: the original text of every transaction that parsePDF, parseCSV or
\* parseXLS returns has at most 200 characters.
C19_Original ==
    /\ (tPc = "done" /\ tOut.status = "resolved") =>
           OriginalTextsBounded(tOut.transactions)
    /\ \A r \in Runs : Returned(r) => OriginalTextsBounded(pRuns[r].out.transactions)

-----------------------------------------------------------------------------
(* C20: a row or line that fails, under SpecParsers                         *)

RemoveAt(s, k) == SubSeq(s, 1, k - 1) \o SubSeq(s, k + 1, Len(s))

\* the transactions of an outcome but for their identifiers; none when the
\* call was rejected
TxnsOf(result) ==
    IF result.status = "resolved"
    THEN [i \in DOMAIN result.transactions |-> WithoutId(result.transactions[i])]
    ELSE <<>>

\* row k of the CSV file, or of sheet s of the workbook, gives no transaction:
\* its date or its amount cannot be read, or its amount is 0
CsvRowFails(file, k) ==
    ~csvParseRow(file.headers, file.rows[k], detectColumns(CSV_KEYWORDS, file.headers),
                 "DMY", 0, file.env).ok

XlsRowFails(file, s, k) ==
    ~xlsParseRow(file.sheets[s].headers, file.sheets[s].rows[k],
                 detectColumns(XLS_KEYWORDS, file.sheets[s].headers), 0, file.env).ok

CsvWithout(file, k) == [file EXCEPT !.rows = RemoveAt(@, k)]

XlsWithout(file, s, k) == [file EXCEPT !.sheets[s].rows = RemoveAt(@, k)]

\* a tabular call on a file with a usable mapping is resolved, a row that fails
\* changes nothing about the transactions of the other rows, and when every
\* row fails the list is empty
TabularRowsFailAlone ==
    /\ (tPc = "done" /\ tFile.format = "csv" /\ tFile.readable /\ tFile.rows # <<>>
            /\ MappingUsable(detectColumns(CSV_KEYWORDS, tFile.headers))) =>
           /\ tOut.status = "resolved"
           /\ \A k \in DOMAIN tFile.rows :
                  CsvRowFails(tFile, k) =>
                      TxnsOf(tOut) = TxnsOf(parseCSV(CsvWithout(tFile, k), 1))
           /\ (\A k \in DOMAIN tFile.rows : CsvRowFails(tFile, k)) =>
                  tOut.transactions = <<>>
    /\ (tPc = "done" /\ tFile.format \in {"xls", "xlsx"} /\ tFile.readable) =>
           /\ tOut.status = "resolved"
           /\ \A s \in DOMAIN tFile.sheets : \A k \in DOMAIN tFile.sheets[s].rows :
                  XlsRowFails(tFile, s, k) =>
                      TxnsOf(tOut) = TxnsOf(parseXLS(XlsWithout(tFile, s, k), 1))
           /\ (\A s \in DOMAIN tFile.sheets : \A k \in DOMAIN tFile.sheets[s].rows :
                   XlsRowFails(tFile, s, k)) =>
                  tOut.transactions = <<>>

\* line k of the document has no date that can be read and is not the header
Dateless(run, k) ==
    /\ ~extractDateFromText(LineText(run.allLines[k]), run.file.env).ok
    /\ findHeaderRow(run.allLines).ok => findHeaderRow(run.allLines).headerIdx # k

StartsAt(run, txn, k) ==
    /\ LineText(run.allLines[k]) # <<>>
    /\ Take(txn.originalText, Len(LineText(run.allLines[k])))
           = Take(LineText(run.allLines[k]), OriginalTextLen)

-----------------------------------------------------------------------------
(* The lines after a dated line, under SpecScan                            *)

\* the texts of the fragments of a line that are no numbers, in their order
NonNumericTexts(items) ==
    LET kept == SelectSeq(items, LAMBDA it : ~isNumericItem(it.text))
    IN  [k \in DOMAIN kept |-> kept[k].text]

\* the numeric fragments of a line that are assigned to the column of a type
AssignedTo(items, columns, type) ==
    SelectSeq(items, LAMBDA it : /\ isNumericItem(it.text)
                                 /\ parseAmount(it.text).ok
                                 /\ assignToColumn(it.x, columns, MoneyTypes) = type)

\* the value a column of the candidate holds after a line: that of the last
\* fragment assigned to it, else the one it held
ColumnValue(old, hits, magnitude) ==
    IF hits = <<>> THEN old
    ELSE IF magnitude THEN Num(Abs(parseAmount(Last(hits).text).v))
    ELSE parseAmount(Last(hits).text)

\* the candidate once a line is merged into it as a continuation
Continued(cur, line, columns) ==
    [cur EXCEPT
        !.descParts = @ \o NonNumericTexts(line.items),
        !.lineText = @ \o <<" ">> \o LineText(line),
        !.debit = ColumnValue(@, AssignedTo(line.items, columns, "debit"), TRUE),
        !.credit = ColumnValue(@, AssignedTo(line.items, columns, "credit"), TRUE),
        !.amount = ColumnValue(@, AssignedTo(line.items, columns, "amount"), FALSE),
        !.balance = ColumnValue(@, AssignedTo(line.items, columns, "balance"), FALSE)]

\* the scan is at a line without a date while a candidate is open
DatelessWhileOpen ==
    /\ fPc = "scan"
    /\ fOut.i <= Len(fIn.lines)
    /\ fOut.st.currentTxn.ok
    /\ ~DatedLine(fIn.lines, fOut.i, fIn.env)

\* the step merges the line into the open candidate and changes nothing else
MergesLine ==
    fOut'.st = [fOut.st EXCEPT
                  !.currentTxn = Continued(@, fIn.lines[fOut.i],
                                           fOut.headerInfo.columns)]

\* the line reads as a page header, a footer or a summary
SummaryLine(line) == Test(SummaryWords, ToLower(LineText(line)))

\* C21, as stated: while a candidate is open, every line without a date is
\* merged into it: numbers go to their columns, the other fragments to the
\* description, the text of the line to the source text
C21_Original == [][DatelessWhileOpen => MergesLine]_vars

\* C21: while a candidate is open, a line without a date is merged into it
\* (numbers to their columns, other fragments to the description, its text to
\* the source text) unless it reads as a page header, footer or summary; such
\* a line is skipped and changes nothing
C21_ContinuationUnlessSummary ==
    [][DatelessWhileOpen =>
          IF SummaryLine(fIn.lines[fOut.i]) THEN fOut'.st = fOut.st ELSE MergesLine]_vars

\* the line "Fee 25.00" has been merged into the candidate of the salary line:
\* 25.00 is its debit, "Fee" the second part of its description
C21_Witness ==
    /\ fPc = "scan"
    /\ fOut.i = 4
    /\ fIn.lines[3] = LinesOf(<<LineHeaderDebitCredit, LineSalary, LineFeeBelow>>)[3]
    /\ fOut.st.currentTxn.ok
    /\ fOut.st.currentTxn.debit = Num(25000)
    /\ fOut.st.currentTxn.descParts = <<<<"S", "a", "l", "a", "r", "y">>, <<"F", "e", "e">>>>
    /\ fOut.st.currentTxn.lineText
         = LineText(fIn.lines[2]) \o <<" ">> \o LineText(fIn.lines[3])

-----------------------------------------------------------------------------
(* The life of a candidate, under SpecScan                                 *)

\* the indices of the dated lines among the lines first..last
DatedBetween(lines, first, last, env) ==
    SelectSeq([k \in 1..(last - first + 1) |-> first + k - 1],
              LAMBDA j : DatedLine(lines, j, env))

\* the dated lines the scan has passed
DatedPassed ==
    DatedBetween(fIn.lines, fOut.headerInfo.headerIdx + 1, fOut.i - 1, fIn.env)

\* during the scan the one candidate is that of the last dated line passed,
\* and the candidates of the dated lines before it have been finalized, each
\* once and in line order
OneCandidate ==
    fPc = "scan" =>
        IF DatedPassed = <<>>
        THEN ~fOut.st.currentTxn.ok /\ fOut.opened = 0 /\ fOut.finalized = <<>>
                /\ fOut.st.transactions = <<>>
        ELSE /\ fOut.st.currentTxn.ok
             /\ fOut.opened = Last(DatedPassed)
             /\ fOut.finalized = Front(DatedPassed)

\* when the scan has ended every candidate has been finalized once, and the
\* transactions are no more than the dated lines after the header
AllFinalized ==
    (fPc = "done" /\ fOut.headerInfo.ok) =>
        /\ fOut.finalized = DatedBetween(fIn.lines, fOut.headerInfo.headerIdx + 1,
                                         Len(fIn.lines), fIn.env)
        /\ Len(fOut.transactions) <= Len(fOut.finalized)

\* a step at a dated line opens the candidate of that line
OpensCandidate ==
    (fPc = "scan" /\ fOut.i <= Len(fIn.lines) /\ DatedLine(fIn.lines, fOut.i, fIn.env)) =>
        /\ fOut'.st.currentTxn.ok
        /\ fOut'.st.currentTxn.date
             = extractDateFromText(LineText(fIn.lines[fOut.i]), fIn.env)
        /\ fOut'.st.currentTxn.lineText = LineText(fIn.lines[fOut.i])

\* a step at a line without a date while no candidate is open changes nothing
NothingBeforeFirstDate ==
    (fPc = "scan" /\ fOut.i <= Len(fIn.lines) /\ ~fOut.st.currentTxn.ok
        /\ ~DatedLine(fIn.lines, fOut.i, fIn.env)) =>
        fOut'.st = fOut.st

\* a step emits at most one transaction, that of the candidate that was open,
\* after the transactions emitted before, and only when it finalizes
EmitsInOrder ==
    fPc = "scan" =>
        \/ fOut'.st.transactions = fOut.st.transactions
        \/ /\ fOut.st.currentTxn.ok
           /\ fOut.i > Len(fIn.lines) \/ DatedLine(fIn.lines, fOut.i, fIn.env)
           /\ Len(fOut'.st.transactions) = Len(fOut.st.transactions) + 1
           /\ Front(fOut'.st.transactions) = fOut.st.transactions
           /\ Last(fOut'.st.transactions).date = fOut.st.currentTxn.date
           /\ Last(fOut'.st.transactions).originalText
                = Take(fOut.st.currentTxn.lineText, OriginalTextLen)

\* C22: one candidate at a time; every dated line after the header opens one,
\* every candidate is finalized once (at the next dated line or at the end of
\* the input) and none is left; lines without a date before the first dated
\* line change nothing; the transactions are no more than the dated lines
\* and come in line order
C22_CandidateLifecycle ==
    /\ [](OneCandidate /\ AllFinalized)
    /\ [][OpensCandidate /\ NothingBeforeFirstDate /\ EmitsInOrder]_vars

\* a scan has ended with three candidates finalized and two transactions: the
\* third dated line repeats the second
C22_Witness ==
    /\ fPc = "done"
    /\ fOut.headerInfo.ok
    /\ Len(fOut.finalized) = 3
    /\ Len(fOut.transactions) = 2

-----------------------------------------------------------------------------
(* The amount finalizeTxn resolves, under SpecScan                         *)

\* rule (a): a debit and a credit column
RuleDebitCredit(cur, has) ==
    IF "debit" \in has /\ "credit" \in has
    THEN IF cur.debit.ok /\ cur.debit.v # 0
         THEN [ok |-> TRUE, amount |-> -cur.debit.v, type |-> "expense"]
         ELSE IF cur.credit.ok /\ cur.credit.v # 0
         THEN [ok |-> TRUE, amount |-> cur.credit.v, type |-> "income"]
         ELSE [ok |-> FALSE]
    ELSE [ok |-> FALSE]

\* rule (b): an amount column
RuleAmount(cur, has) ==
    IF "amount" \in has /\ cur.amount.ok /\ cur.amount.v # 0
    THEN IF "type" \in has /\ SaysDebit(ToLower(cur.typeIndicator))
         THEN [ok |-> TRUE, amount |-> -Abs(cur.amount.v), type |-> "expense"]
         ELSE IF "type" \in has /\ SaysCredit(ToLower(cur.typeIndicator))
         THEN [ok |-> TRUE, amount |-> Abs(cur.amount.v), type |-> "income"]
         ELSE [ok |-> TRUE, amount |-> cur.amount.v,
               type |-> IF cur.amount.v >= 0 THEN "income" ELSE "expense"]
    ELSE [ok |-> FALSE]

\* rule (c): a debit column and no credit column
RuleDebit(cur, has) ==
    IF "debit" \in has /\ "credit" \notin has /\ cur.debit.ok /\ cur.debit.v # 0
    THEN [ok |-> TRUE, amount |-> -cur.debit.v, type |-> "expense"]
    ELSE [ok |-> FALSE]

\* rule (d): a credit column and no debit column
RuleCredit(cur, has) ==
    IF "credit" \in has /\ "debit" \notin has /\ cur.credit.ok /\ cur.credit.v # 0
    THEN [ok |-> TRUE, amount |-> cur.credit.v, type |-> "income"]
    ELSE [ok |-> FALSE]

\* the first of the rules (a) to (d) that yields an amount
FirstRule(cur, has) ==
    IF RuleDebitCredit(cur, has).ok THEN RuleDebitCredit(cur, has)
    ELSE IF RuleAmount(cur, has).ok THEN RuleAmount(cur, has)
    ELSE IF RuleDebit(cur, has).ok THEN RuleDebit(cur, has)
    ELSE RuleCredit(cur, has)

\* the step finalizes the open candidate
FinalizingStep ==
    /\ fPc = "scan"
    /\ fOut.st.currentTxn.ok
    /\ fOut.i > Len(fIn.lines) \/ DatedLine(fIn.lines, fOut.i, fIn.env)

\* the step emits a transaction of the amount and type resolved, unless one
\* of the same date and magnitude has been emitted
EmitsResolved(cur, final) ==
    IF ~final.ok THEN fOut'.st.transactions = fOut.st.transactions
    ELSE \/ /\ fOut'.st.transactions = fOut.st.transactions
            /\ \E k \in DOMAIN fOut.st.transactions :
                  /\ fOut.st.transactions[k].date = cur.date
                  /\ Abs(fOut.st.transactions[k].amount) = Abs(final.amount)
         \/ /\ Len(fOut'.st.transactions) = Len(fOut.st.transactions) + 1
            /\ Last(fOut'.st.transactions).amount = final.amount
            /\ Last(fOut'.st.transactions).type = final.type

\* C23, as stated: the candidate gets the amount and the type of the first of
\* the rules (a) to (d) that yields a nonzero amount, and is discarded only
\* when none does
C23_Original ==
    [][FinalizingStep =>
          EmitsResolved(fOut.st.currentTxn,
                        FirstRule(fOut.st.currentTxn, HeaderTypes(fOut.headerInfo)))]_vars

-----------------------------------------------------------------------------
(* The nearest column, under SpecAssign                                    *)

\* twice the distance from a position to the centre of a column
CentreDistance2(x, col) == Abs(2 * x - (col.x + col.xEnd))

\* the position lies within 40 units of the span of the column
WithinReach(x, col) == x >= col.x - 40 /\ x <= col.xEnd + 40

\* four times the effective distance: the distance is halved within the reach
\* (four times, so that it stays an integer)
HalvedDistance4(x, col) ==
    IF WithinReach(x, col) THEN CentreDistance2(x, col) ELSE 2 * CentreDistance2(x, col)

\* column k has a target role, no column with a target role is nearer, and
\* none before it is as near
NearestTarget(x, columns, targetTypes, k) ==
    /\ columns[k].type \in targetTypes
    /\ \A j \in DOMAIN columns :
          columns[j].type \in targetTypes =>
              /\ HalvedDistance4(x, columns[k]) <= HalvedDistance4(x, columns[j])
              /\ j < k => HalvedDistance4(x, columns[j]) > HalvedDistance4(x, columns[k])

\* what the call returns is the role of the nearest target column when its
\* effective distance is at most 100, and none otherwise
ReturnsNearest(x, columns, targetTypes, type) ==
    IF \E k \in DOMAIN columns :
          NearestTarget(x, columns, targetTypes, k)
              /\ HalvedDistance4(x, columns[k]) <= 4 * 100
    THEN \E k \in DOMAIN columns :
            NearestTarget(x, columns, targetTypes, k) /\ type = columns[k].type
    ELSE type = NoType

\* C24: assignToColumn returns the role of the target column of the smallest
\* effective distance (the distance to the centre, halved within 40 units of
\* the span; the earliest column among equals) when that distance is at most
\* 100, and none when it is more or when no column has a target role
C24_NearestColumn ==
    fPc = "done" => ReturnsNearest(fIn.x, fIn.columns, fIn.targetTypes, fOut.type)

\* the position 315 is the centre of a debit and of a credit column of the
\* same span: the debit column, the first, is returned
C24_Witness ==
    /\ fPc = "done"
    /\ fIn.fn = "assignToColumn"
    /\ fIn.x = 315
    /\ fIn.columns = <<Col("debit", 300, 330), Col("credit", 300, 330)>>
    /\ fIn.targetTypes = MoneyTypes
    /\ fOut.type = "debit"

-----------------------------------------------------------------------------
(* The header row, under SpecScan                                          *)

\* the roles of the fragments of a line that have one
RolesOn(line) ==
    SelectSeq([k \in DOMAIN line.items |-> classifyHeaderItem(line.items[k].text)],
              LAMBDA type : type # NoType)

\* the line has a date role, one of debit, credit and amount, and at least
\* two fragments with a role
QualifiesAsHeader(line) ==
    /\ "date" \in Range(RolesOn(line))
    /\ Range(RolesOn(line)) \cap {"debit", "credit", "amount"} # {}
    /\ Len(RolesOn(line)) >= 2

\* the lines of index below 60 (the first 60 lines) that qualify
HeaderCandidates(lines) ==
    {k \in 1..Len(lines) : k - 1 < 60 /\ QualifiesAsHeader(lines[k])}

\* the header found is the first candidate; without one nothing is found and
\* the strategy returns the empty list
FirstCandidateIsHeader ==
    fPc # "call" =>
        IF HeaderCandidates(fIn.lines) = {}
        THEN ~fOut.headerInfo.ok /\ fPc = "done" /\ fOut.transactions = <<>>
        ELSE /\ fOut.headerInfo.ok
             /\ fOut.headerInfo.headerIdx \in HeaderCandidates(fIn.lines)
             /\ \A k \in HeaderCandidates(fIn.lines) : fOut.headerInfo.headerIdx <= k

\* the scan stays below the header, and every transaction is that of a dated
\* line below the header
OnlyLinesAfterHeader ==
    /\ fPc = "scan" => fOut.i > fOut.headerInfo.headerIdx
    /\ (fPc = "done" /\ fOut.headerInfo.ok) =>
          \A t \in DOMAIN fOut.transactions :
             \E k \in (fOut.headerInfo.headerIdx + 1)..Len(fIn.lines) :
                /\ extractDateFromText(LineText(fIn.lines[k]), fIn.env)
                      = fOut.transactions[t].date
                /\ Take(fOut.transactions[t].originalText, Len(LineText(fIn.lines[k])))
                      = LineText(fIn.lines[k])

\* C25: findHeaderRow returns the first of the lines of index below 60 that
\* has a date role, one of debit, credit and amount, and two fragments with a
\* role; a line of index 60 or more is never the header; no line before the
\* header yields a transaction; without a header the strategy returns the
\* empty list
C25_HeaderRow == FirstCandidateIsHeader /\ OnlyLinesAfterHeader

\* the header is the line of index 59, after 59 dated lines: the one line
\* after it is the one transaction
C25_Witness ==
    /\ fPc = "done"
    /\ fIn.fn = "columnBasedParse"
    /\ fOut.headerInfo.ok
    /\ fOut.headerInfo.headerIdx = 60
    /\ Len(fIn.lines) = 61
    /\ Len(fOut.transactions) = 1

-----------------------------------------------------------------------------
(* The line a fragment joins, under SpecLayout                             *)

\* the lines whose vertical position is less than 3 units from that of item
LinesNear(pageLines, item) ==
    {i \in DOMAIN pageLines : Abs(pageLines[i].y - item.y) < 3}

\* the step puts the item at the end of line i
JoinsLine(i) ==
    fOut'.pageLines = [fOut.pageLines EXCEPT ![i].items = Append(@, fOut.items[fOut.k])]

\* the step starts a line at the vertical position of the item
StartsLine ==
    fOut'.pageLines = Append(fOut.pageLines, [y |-> fOut.items[fOut.k].y,
                                              items |-> <<fOut.items[fOut.k]>>])

\* the grouping loop is at an item
AtItem == fPc = "group" /\ fOut.k <= Len(fOut.items)

\* C26, as stated: a fragment joins the most recently created of the lines
\* less than 3 units from it, and starts a line only when there is none
C26_Original ==
    [][AtItem =>
          IF LinesNear(fOut.pageLines, fOut.items[fOut.k]) = {}
          THEN StartsLine
          ELSE \E i \in LinesNear(fOut.pageLines, fOut.items[fOut.k]) :
                  /\ \A j \in LinesNear(fOut.pageLines, fOut.items[fOut.k]) : j <= i
                  /\ JoinsLine(i)]_vars

-----------------------------------------------------------------------------
(* The lines of a document, under SpecLayout                               *)

\* the fragments of a page that are not blank, as items: the text trimmed
NonBlankItems(page) ==
    LET kept == SelectSeq(page, LAMBDA f : \E i \in DOMAIN f.str : f.str[i] \notin Spaces)
    IN  [k \in DOMAIN kept |-> [text |-> Trim(kept[k].str), x |-> kept[k].x, y |-> kept[k].y]]

\* the items of a list of lines, line after line
RECURSIVE ItemsOfLines(_)
ItemsOfLines(lines) ==
    IF lines = <<>> THEN <<>> ELSE Head(lines).items \o ItemsOfLines(Tail(lines))

\* how often a value occurs in a list
Occurrences(list, v) == Cardinality({i \in DOMAIN list : list[i] = v})

\* each item of the page is on one line, once
EachItemOnOneLine(lines, page) ==
    /\ Len(ItemsOfLines(lines)) = Len(NonBlankItems(page))
    /\ \A k \in DOMAIN NonBlankItems(page) :
          Occurrences(ItemsOfLines(lines), NonBlankItems(page)[k])
              = Occurrences(NonBlankItems(page), NonBlankItems(page)[k])

\* a line: no item is 3 units or more from it, and the items go left to right
LineInOrder(line) ==
    /\ line.items # <<>>
    /\ \A i \in DOMAIN line.items : Abs(line.items[i].y - line.y) < 3
    /\ \A i, j \in DOMAIN line.items : i < j => line.items[i].x <= line.items[j].x

\* lines are the lines of the page: top to bottom
LinesOfPage(lines, page) ==
    /\ EachItemOnOneLine(lines, page)
    /\ \A i \in DOMAIN lines : LineInOrder(lines[i])
    /\ \A i, j \in DOMAIN lines : i < j => lines[i].y >= lines[j].y

\* allLines is made of the lines of the pages from page p on, page after page
RECURSIVE PageAfterPage(_, _, _)
PageAfterPage(allLines, pages, p) ==
    IF p > Len(pages) THEN allLines = <<>>
    ELSE \E n \in 0..Len(allLines) :
            /\ LinesOfPage(SubSeq(allLines, 1, n), pages[p])
            /\ PageAfterPage(SubSeq(allLines, n + 1, Len(allLines)), pages, p + 1)

\* C27: once the pages are read, every fragment that is not blank is on one
\* line of its page, less than 3 units from the position of the line; the
\* lines of a page go top to bottom, the fragments of a line left to right,
\* and the pages follow each other in their order
C27_LinesOfPages ==
    fPc = "done" => PageAfterPage(fOut.allLines, fIn.pages, 1)

\* a document of two pages: the line of the first page lies below the line
\* of the second page and comes before it, and the two fragments of the
\* second page, given right to left, are on one line left to right
C27_Witness ==
    /\ fPc = "done"
    /\ fIn.fn = "pageLines"
    /\ Len(fIn.pages) = 2
    /\ Len(fOut.allLines) = 2
    /\ fOut.allLines[1].y = 680
    /\ fOut.allLines[2].y = 700
    /\ fOut.allLines[2].items[1].x = 50
    /\ fOut.allLines[2].items[2].x = 120

-----------------------------------------------------------------------------
(* Balance tracking, under SpecText                                        *)

\* the balance of an entry: its last token
BalanceOf(entry) == entry.amounts[Len(entry.amounts)]

\* the tokens of an entry but for the balance
OtherTokens(entry) == SubSeq(entry.amounts, 1, Len(entry.amounts) - 1)

\* the validation holds for the first 10 entries: each has two tokens, and a
\* step of more than 0.1 from the balance before is matched by another token
ValidationHolds(entries) ==
    \A i \in DOMAIN entries :
        i <= 10 =>
            /\ Len(entries[i].amounts) >= 2
            /\ i > 1 =>
                  \/ Abs(BalanceOf(entries[i]) - BalanceOf(entries[i - 1])) <= 100
                  \/ \E k \in DOMAIN OtherTokens(entries[i]) :
                        NearStep(OtherTokens(entries[i])[k],
                                 Abs(BalanceOf(entries[i]) - BalanceOf(entries[i - 1])))

\* the amount of entry i: the first token that matches the step of the
\* balance, or the first token when none matches
TrackedAmount(entry, step) ==
    IF \E k \in DOMAIN OtherTokens(entry) : NearStep(OtherTokens(entry)[k], Abs(step))
    THEN OtherTokens(entry)[CHOOSE k \in DOMAIN OtherTokens(entry) :
                               /\ NearStep(OtherTokens(entry)[k], Abs(step))
                               /\ \A j \in 1..(k - 1) :
                                     ~NearStep(OtherTokens(entry)[j], Abs(step))]
    ELSE OtherTokens(entry)[1]

\* t is the transaction of entry i of entries, i being at least 2
TransactionOfEntry(t, entries, i) ==
    LET step == BalanceOf(entries[i]) - BalanceOf(entries[i - 1])
    IN  /\ t.date = entries[i].date
        /\ t.originalText = Take(entries[i].text, OriginalTextLen)
        /\ t.type = (IF step >= 0 THEN "income" ELSE "expense")
        /\ Abs(t.amount) = TrackedAmount(entries[i], step)
        /\ t.balance = Num(BalanceOf(entries[i]))

\* t has the date, the magnitude and the description of entry i: the entry
\* is a duplicate of the entry of t
SameKey(t, entries, i) ==
    LET step == BalanceOf(entries[i]) - BalanceOf(entries[i - 1])
    IN  DedupKey(t.date, Abs(t.amount), t.description)
            = DedupKey(entries[i].date, TrackedAmount(entries[i], step),
                       cleanDescription(entries[i].text))

\* the call has returned and balance tracking applies to its entries
TrackingApplies ==
    /\ fPc = "done"
    /\ Len(fOut.entries) >= 3
    /\ ValidationHolds(fOut.entries)

\* entry i, not the first one, has its transaction, or is a duplicate
LaterEntryTracked(i) ==
    \E k \in DOMAIN fOut.result.transactions :
        \/ TransactionOfEntry(fOut.result.transactions[k], fOut.entries, i)
        \/ SameKey(fOut.result.transactions[k], fOut.entries, i)

-----------------------------------------------------------------------------
(* validateWithBalance applied to its result, under SpecValidateTwice      *)

\* C29: validateWithBalance returns its own result unchanged, in every field
\* of every transaction
C29_Idempotent == vPc = "again" => vOut = vIn

\* the second call was given a list the first call had corrected: three
\* transactions, one of an amount no sample transaction has
C29_Witness ==
    /\ vPc = "again"
    /\ Len(vIn) = 3
    /\ ValidationApplies(vIn)
    /\ \E i \in DOMAIN vIn : Abs(vIn[i].amount) \notin SampleMagnitudes
    /\ vOut = vIn

-----------------------------------------------------------------------------
(* The two column mappers on the same headers, under SpecColumns           *)

\* C30, as stated: on every header list the detectColumns of the spreadsheet
\* parser and the detectColumns of the delimited-text parser return the same
\* mapping
C30_Original ==
    /\ (fPc = "done" /\ fIn.fn = "csvDetectColumns") =>
          fOut.mapping = detectColumns(XLS_KEYWORDS, fIn.headers)
    /\ (fPc = "done" /\ fIn.fn = "xlsDetectColumns") =>
          fOut.mapping = detectColumns(CSV_KEYWORDS, fIn.headers)

=============================================================================
